---- MODULE Spec2Model ----
(***************************************************************************)
(* The graph store of tafarru3 (src/src/store/useFlowStore.ts, the last    *)
(* store in the file, lines 691-1099), wrapped by the zundo temporal      *)
(* middleware, together with the CSV codec of src/src/utils/csv.ts         *)
(* (lines 6-229).                                                          *)
(*                                                                         *)
(* Representation.  The string `node-${k}` is the tuple <<"node", k>>;     *)
(* the edge id `e${s}-${t}-${n}` is the tuple <<s, t, n>> of its two node  *)
(* id substrings and its numeric suffix; `undefined` is the empty tuple.   *)
(* Node ids stay below node-10 in every specification, so no node id is a  *)
(* proper prefix of another and String.replace on an edge id can only hit  *)
(* one of the two node id substrings.                                      *)
(***************************************************************************)
EXTENDS Integers, Sequences, FiniteSets, TLC

VARIABLES
    nodes,            \* FlowState.nodes
    edges,            \* FlowState.edges
    selectedNodes,    \* FlowState.selectedNodes
    selectedEdges,    \* FlowState.selectedEdges
    unsavedChanges,   \* FlowState.unsavedChanges
    isInteracting,    \* FlowState.isInteracting
    mode,             \* FlowState.mode
    gridEnabled,      \* FlowState.gridEnabled
    projectName,      \* FlowState.projectName
    pastStates,       \* zundo: temporal.getState().pastStates
    futureStates,     \* zundo: temporal.getState().futureStates
    pendingRecalc,    \* number of queued setTimeout(recalculateNodeIds, 0) callbacks
    saveTimeout,      \* useAutoSave: the pending setTimeout and the values it closed over
    sessions,         \* localStorage['tafarru3_sessions']
    clock,            \* Date.now(), in milliseconds
    changedAt,        \* history: the clock at the last change the effect depends on
    now,              \* the last value Date.now() returned
    file,             \* the CSV file last exported, and the graph it was written from
    error,            \* ImportDialog: the failure message shown, or null
    frame,            \* CustomNode: the pending requestAnimationFrame callback of a resize
    savedGraph,       \* history: nodes and edges at the last importData, clearAll or CSV export
    gesture,          \* history variable: the drag gesture in progress or just ended
    lastOp,           \* history variable: the operation that produced this state
    pre,              \* history variable: the store as it was before that operation
    fuel              \* number of calls the run may still make; timer callbacks are free

\* the fields only the UI actions write
uiState == <<mode, gridEnabled, projectName>>

vars == <<nodes, edges, selectedNodes, selectedEdges, unsavedChanges, isInteracting,
          mode, gridEnabled, projectName, pastStates, futureStates, pendingRecalc, now, file,
          error, frame, savedGraph, gesture, lastOp, pre, fuel, saveTimeout, sessions, clock,
          changedAt>>

----------------------------------------------------------------------------
(* Bounds of the model *)

MaxNodes == 3
MaxEdges == 2
StepsAddDelete == 7
StepsStore == 4
StepsCascade == 6
StepsConnect == 5
StepsRenumber == 7
StepsDrag == 6
StepsCsv == 6
StepsDeleteEdges == 6
StepsInterleave == 5
StepsHistory == 5
StepsLimit == 53
StepsCreate == 5
StepsIdempotent == 6
StepsImport == 5
StepsMalformed == 4
StepsLayout == 2
StepsAutoSave == 5
StepsSessions == 12
StepsAutoLayout == 3
StepsEdgeStyle == 6
StepsResize == 5

\* operations of a run that connects, deletes and undoes
StepsBacked == 6

\* operations of a run that exports and goes on editing
StepsUnsaved == 5
MaxRaw == 2
Tick == 500
MaxPending == 2
MaxClock == 1
MaxPos == 2
MaxGrid == 19

(* Program constants *)

limit == 50
MAX_SESSIONS == 10
SaveDelay == 1000
FIXED_GAP == 30
spacing == 75

----------------------------------------------------------------------------
(* Values *)

\* null, as the value of a string | null
null == <<>>

undefined == <<>>

NodeId(k) == <<"node", k>>

\* the node ids a caller can hold: the live ones, and those of the first
\* Len(ns) + 1 positions, which are stale when a node is missing there
CallerIds(ns) == {ns[i].id : i \in 1..Len(ns)} \cup {NodeId(k) : k \in 1..(Len(ns) + 1)}

\* the id of an edge that is not in the store: its timestamp is never issued
StaleEdgeId == <<NodeId(1), NodeId(1), MaxClock + 1>>

\* the times Date.now() can return next
Times(t) == {u \in {t, t + 1} : u <= MaxClock}

Origin == [x |-> 0, y |-> 0]

DefaultNodeData == [label |-> "New Node", width |-> 120, parentId |-> undefined]

DefaultEdgeData ==
    [lineStyle |-> "solid", lineWidth |-> 2, lineColor |-> "#000000",
     arrowStyle |-> "start", curveStyle |-> "curve"]

----------------------------------------------------------------------------
(* Array helpers *)

Map(F(_), s) == [i \in 1..Len(s) |-> F(s[i])]

Filter(P(_), s) == SelectSeq(s, P)

SetMax(S) == CHOOSE m \in S : \A x \in S : x <= m

\* { ...data, ...patch }
Merge(data, patch) ==
    [k \in (DOMAIN data) \cup (DOMAIN patch) |->
        IF k \in DOMAIN patch THEN patch[k] ELSE data[k]]

NodeIds(ns) == {ns[i].id : i \in 1..Len(ns)}

EdgeIds(es) == {es[i].id : i \in 1..Len(es)}

----------------------------------------------------------------------------
(* Identifier manager *)

getNumericId(nodeId) == nodeId[2]

getNextNodeId(ns) ==
    NodeId((IF Len(ns) > 0 THEN SetMax({getNumericId(ns[i].id) : i \in 1..Len(ns)}) ELSE 0) + 1)

\* an insertion for the comparator b - a: descending order
RECURSIVE InsertSortedDescending(_, _)
InsertSortedDescending(node, s) ==
    IF s = <<>> THEN <<node>>
    ELSE IF getNumericId(node.id) > getNumericId(Head(s).id) THEN <<node>> \o s
    ELSE <<Head(s)>> \o InsertSortedDescending(node, Tail(s))

RECURSIVE InsertSorted(_, _)
InsertSorted(node, s) ==
    IF s = <<>> THEN <<node>>
    ELSE IF getNumericId(node.id) < getNumericId(Head(s).id) THEN <<node>> \o s
    ELSE <<Head(s)>> \o InsertSorted(node, Tail(s))

\* [...state.nodes].sort((a, b) => getNumericId(a.id) - getNumericId(b.id)):
\* ascending and stable
RECURSIVE sortedNodes(_)
sortedNodes(ns) ==
    IF ns = <<>> THEN <<>>
    ELSE InsertSorted(ns[Len(ns)], sortedNodes(SubSeq(ns, 1, Len(ns) - 1)))

\* keys of idMapping: the ids of the nodes whose id changes
MappedIds(ns) ==
    LET s == sortedNodes(ns)
    IN  {s[i].id : i \in {j \in 1..Len(s) : s[j].id # NodeId(j)}}

\* idMapping[id] || id ; a later write to the same key wins
MapId(ns, id) ==
    LET s == sortedNodes(ns)
        hits == {j \in 1..Len(s) : s[j].id = id /\ s[j].id # NodeId(j)}
    IN  IF hits = {} THEN id ELSE NodeId(SetMax(hits))

\* String.prototype.replace(old, new) on an edge id: the first occurrence only
ReplaceFirst(id, old, new) ==
    IF id[1] = old THEN <<new, id[2], id[3]>>
    ELSE IF id[2] = old THEN <<id[1], new, id[3]>>
    ELSE id

\* a renumbering that numbers from the array index instead of index + 1
RenumberNodesFromZero(ns) ==
    LET s == sortedNodes(ns)
    IN  [i \in 1..Len(s) |-> [s[i] EXCEPT !.id = NodeId(i - 1)]]

RenumberNodes(ns) ==
    LET s == sortedNodes(ns)
    IN  [i \in 1..Len(s) |->
            LET node == s[i]
                pid == node.data.parentId
            IN  [id |-> NodeId(i),
                 position |-> node.position,
                 data |-> IF pid # undefined /\ pid \in MappedIds(ns)
                          THEN [node.data EXCEPT !.parentId = MapId(ns, pid)]
                          ELSE node.data]]

\* a renumbering of an edge that rewrites its source and leaves its target
RenumberEdgeSourceOnly(ns, edge) ==
    LET newSource == MapId(ns, edge.source)
    IN  [edge EXCEPT !.id = ReplaceFirst(edge.id, edge.source, newSource),
                     !.source = newSource]

RenumberEdge(ns, edge) ==
    LET newSource == MapId(ns, edge.source)
        newTarget == MapId(ns, edge.target)
    IN  [edge EXCEPT
            !.id = ReplaceFirst(ReplaceFirst(edge.id, edge.source, newSource),
                                edge.target, newTarget),
            !.source = newSource,
            !.target = newTarget]

RenumberEdges(ns, es) == Map(LAMBDA e : RenumberEdge(ns, e), es)

RenumberSelection(ns, sel) == Map(LAMBDA id : MapId(ns, id), sel)

----------------------------------------------------------------------------
(* Serialization codec.  A string of the CSV file is a sequence of tokens:   *)
(* a node id, <<"word", s>> for a run of characters without separators,      *)
(* <<"num", n>> for the decimal digits of n, <<"sep", c>> for the character  *)
(* c; the empty string is the empty sequence.  Papa.unparse and Papa.parse   *)
(* carry the rows' cells unchanged, and readAsText drops the byte order     *)
(* mark generateCSV prepends.                                               *)

Word(s) == <<"word", s>>

Num(n) == <<"num", n>>

Sep(c) == <<"sep", c>>

\* a string-valued field as text; '' and undefined are the empty text
StringText(s) == IF s = "" THEN <<>> ELSE <<Word(s)>>

\* Number.prototype.toString()
NumberText(n) == <<Num(n)>>

IdText(id) == IF id = undefined THEN <<>> ELSE <<id>>

\* the reverse readings: a cell used as a string, as a number, as a node id
TextString(t) == IF t = <<>> THEN "" ELSE t[1][2]

parseNumber(t) == t[1][2]

TextId(t) == IF t = <<>> THEN undefined ELSE t[1]

\* data?.key || ''
Field(data, key) == IF key \in DOMAIN data THEN data[key] ELSE ""

\* a || b on strings
OrElse(a, b) == IF a = "" THEN b ELSE a

\* Array.prototype.join
RECURSIVE Join(_, _)
Join(parts, c) ==
    IF parts = <<>> THEN <<>>
    ELSE IF Len(parts) = 1 THEN parts[1]
    ELSE parts[1] \o <<Sep(c)>> \o Join(Tail(parts), c)

\* String.prototype.split
RECURSIVE Split(_, _)
Split(t, c) ==
    LET at == {i \in 1..Len(t) : t[i] = Sep(c)}
    IN  IF at = {} THEN <<t>>
        ELSE LET i == CHOOSE j \in at : \A k \in at : j <= k
             IN  <<SubSeq(t, 1, i - 1)>> \o Split(SubSeq(t, i + 1, Len(t)), c)

RECURSIVE Flatten(_)
Flatten(ss) == IF ss = <<>> THEN <<>> ELSE Head(ss) \o Flatten(Tail(ss))

\* the packed form of one outgoing edge (csv.ts, parts.join(','))
PackConnection(edge) ==
    Join(<<IdText(edge.target),
           StringText(OrElse(Field(edge.data, "curveStyle"), "straight")),
           StringText(OrElse(edge.sourceHandle, "bottom")),
           StringText(OrElse(edge.targetHandle, "top")),
           StringText(OrElse(Field(edge.data, "lineStyle"), "solid")),
           StringText(OrElse(Field(edge.data, "lineColor"), "#b1b1b7")),
           StringText(OrElse(Field(edge.data, "arrowStyle"), "end")),
           StringText(Field(edge.data, "label"))>>
         \o (IF Field(edge.data, "curveStyle") = "bezier"
             THEN [k \in 1..4 |->
                     LET key == <<"controlPoint1X", "controlPoint1Y",
                                  "controlPoint2X", "controlPoint2Y">>[k]
                     IN  IF key \in DOMAIN edge.data THEN NumberText(edge.data[key])
                         ELSE NumberText(0)]
             ELSE <<>>),
         ",")

\* the row generateCSV writes for one node
generateRow(node, es) ==
    LET parentId == node.data.parentId
        found == {i \in 1..Len(es) :
                    \/ (es[i].source = parentId /\ es[i].target = node.id)
                    \/ (es[i].target = parentId /\ es[i].source = node.id)}
        parentEdgeData == IF found = {} THEN <<>>
                          ELSE es[CHOOSE i \in found : \A j \in found : i <= j].data
        additionalEdges ==
            Filter(LAMBDA e : /\ e.source = node.id
                              /\ ~(parentId # undefined /\ e.target = parentId), es)
    IN  [ID |-> IdText(node.id),
         ParentID |-> IdText(parentId),
         Label |-> StringText(Field(node.data, "label")),
         LineStyle |-> StringText(Field(parentEdgeData, "lineStyle")),
         LineWidth |-> IF "lineWidth" \in DOMAIN parentEdgeData
                       THEN NumberText(parentEdgeData.lineWidth) ELSE <<>>,
         LineColor |-> StringText(Field(parentEdgeData, "lineColor")),
         ArrowStyle |-> StringText(Field(parentEdgeData, "arrowStyle")),
         LineLabel |-> StringText(Field(parentEdgeData, "label")),
         X |-> NumberText(node.position.x),
         Y |-> NumberText(node.position.y),
         Width |-> IF "width" \in DOMAIN node.data
                   THEN NumberText(node.data.width) ELSE <<>>,
         ConnectionData |-> Join(Map(PackConnection, additionalEdges), ";")]

generateCSV(ns, es) == Map(LAMBDA node : generateRow(node, es), ns)

\* the edge parseCSV builds from a row's ParentID when no row of the file has
\* ConnectionData; its id `e${ParentID}-${ID}` has no numeric suffix, written -1
parentEdgeOfRow(row) ==
    [id |-> <<TextId(row.ParentID), TextId(row.ID), -1>>,
     source |-> TextId(row.ParentID),
     target |-> TextId(row.ID),
     sourceHandle |-> "bottom",
     targetHandle |-> "top",
     data |-> Merge([lineStyle |-> OrElse(TextString(row.LineStyle), "solid"),
                     lineWidth |-> IF row.LineWidth = <<>> THEN 2
                                   ELSE parseNumber(row.LineWidth),
                     lineColor |-> OrElse(TextString(row.LineColor), "#b1b1b7"),
                     arrowStyle |-> OrElse(TextString(row.ArrowStyle), "end"),
                     curveStyle |-> "straight"],
                    IF row.LineLabel = <<>> THEN <<>>
                    ELSE [label |-> TextString(row.LineLabel)])]

\* the edges of one entry of a row's ConnectionData: none when it has fewer
\* than eight comma-separated parts
connectionEdges(row, conn, connIndex) ==
    LET parts == Split(conn, ",")
    IN  IF Len(parts) < 8 THEN <<>>
        ELSE LET curveType == TextString(parts[2])
                 edgeData ==
                     Merge([lineStyle |-> OrElse(TextString(parts[5]), "solid"),
                            lineWidth |-> 2,
                            lineColor |-> OrElse(TextString(parts[6]), "#b1b1b7"),
                            arrowStyle |-> OrElse(TextString(parts[7]), "end"),
                            curveStyle |-> OrElse(curveType, "straight")],
                           IF parts[8] = <<>> THEN <<>>
                           ELSE [label |-> TextString(parts[8])])
                 controlPoints ==
                     IF curveType = "bezier" /\ Len(parts) >= 12
                     THEN [controlPoint1X |-> parseNumber(parts[9]),
                           controlPoint1Y |-> parseNumber(parts[10]),
                           controlPoint2X |-> parseNumber(parts[11]),
                           controlPoint2Y |-> parseNumber(parts[12])]
                     ELSE <<>>
             IN  <<[id |-> <<TextId(row.ID), TextId(parts[1]), connIndex>>,
                    source |-> TextId(row.ID),
                    target |-> TextId(parts[1]),
                    sourceHandle |-> TextString(parts[3]),
                    targetHandle |-> TextString(parts[4]),
                    data |-> Merge(edgeData, controlPoints)]>>

hasAnyConnectionData(rows) == \E i \in 1..Len(rows) : rows[i].ConnectionData # <<>>

parseNode(row, index) ==
    [id |-> IF row.ID = <<>> THEN NodeId(index) ELSE TextId(row.ID),
     position |-> [x |-> IF row.X = <<>> THEN 0 ELSE parseNumber(row.X),
                   y |-> IF row.Y = <<>> THEN 0 ELSE parseNumber(row.Y)],
     data |-> Merge([label |-> TextString(row.Label),
                     parentId |-> TextId(row.ParentID)],
                    IF row.Width = <<>> THEN <<>>
                    ELSE [width |-> parseNumber(row.Width)])]

\* the edges parseCSV pushes while it visits one row
parseRowEdges(rows, row) ==
    LET connections == Filter(LAMBDA c : c # <<>>, Split(row.ConnectionData, ";"))
    IN  (IF ~hasAnyConnectionData(rows) /\ row.ParentID # <<>>
         THEN <<parentEdgeOfRow(row)>> ELSE <<>>)
        \o (IF row.ConnectionData # <<>>
            THEN Flatten([k \in 1..Len(connections) |->
                             connectionEdges(row, connections[k], k - 1)])
            ELSE <<>>)

\* rows.some(row => !row.X || !row.Y)
needsAutoLayout(rows) == \E i \in 1..Len(rows) : rows[i].X = <<>> \/ rows[i].Y = <<>>

\* n.data.width || 150 and n.data.height || 50
BoxWidth(node) ==
    IF "width" \in DOMAIN node.data /\ node.data.width # 0 THEN node.data.width ELSE 150

BoxHeight(node) ==
    IF "height" \in DOMAIN node.data /\ node.data.height # 0 THEN node.data.height ELSE 50

\* the edges handed to dagre: from the parent to the child, when the parent is
\* a node of the graph
HasLayoutParent(ns, i) ==
    ns[i].data.parentId # undefined /\ \E j \in 1..Len(ns) : ns[j].id = ns[i].data.parentId

\* dagre, rankdir TB: the rank of a node is the length of the longest path of
\* parent edges that ends in it (k bounds the search)
RECURSIVE Rank(_, _, _)
Rank(ns, i, k) ==
    IF k = 0 \/ ~HasLayoutParent(ns, i) THEN 0
    ELSE 1 + SetMax({Rank(ns, j, k - 1) : j \in {m \in 1..Len(ns) : ns[m].id = ns[i].data.parentId}})

RankOf(ns, i) == Rank(ns, i, Len(ns))

RankHeight(ns, r) ==
    SetMax({0} \cup {BoxHeight(ns[i]) : i \in {j \in 1..Len(ns) : RankOf(ns, j) = r}})

\* dagre positionY: the ranks are stacked from 0, ranksep apart, and every
\* node is centred in the band of its rank
RECURSIVE RankTop(_, _, _)
RankTop(ns, r, ranksep) ==
    IF r = 0 THEN 0 ELSE RankTop(ns, r - 1, ranksep) + RankHeight(ns, r - 1) + ranksep

\* the x coordinates dagre may give to node centres
XCenters == {15 * k : k \in 0..MaxGrid}

\* the results dagre.layout may leave in g.node(id), as centres of the nodes'
\* boxes: y as positionY computes it; x any assignment in which the boxes of
\* one rank are at least nodesep apart and the leftmost box starts at 0
DagreLayouts(ns, nodesep, ranksep) ==
    {[i \in 1..Len(ns) |->
         [x |-> xs[i],
          y |-> RankTop(ns, RankOf(ns, i), ranksep) + (RankHeight(ns, RankOf(ns, i)) \div 2)]] :
       xs \in {f \in [1..Len(ns) -> XCenters] :
                 /\ \A i \in 1..Len(ns) : f[i] * 2 >= BoxWidth(ns[i])
                 /\ \/ ns = <<>>
                    \/ \E i \in 1..Len(ns) : f[i] * 2 = BoxWidth(ns[i])
                 /\ \A i \in 1..Len(ns), j \in 1..Len(ns) :
                       (i < j /\ RankOf(ns, i) = RankOf(ns, j)) =>
                           \/ 2 * (f[j] - f[i]) >= BoxWidth(ns[i]) + BoxWidth(ns[j]) + 2 * nodesep
                           \/ 2 * (f[i] - f[j]) >= BoxWidth(ns[i]) + BoxWidth(ns[j]) + 2 * nodesep}}

\* csv.ts applyHierarchicalLayout, g being what dagre.layout left in the graph:
\* the centres are shifted by 100 minus their least coordinate, and a node is
\* placed half its width and height before its centre
applyHierarchicalLayout(ns, g) ==
    IF ns = <<>> THEN ns
    ELSE LET minX == CHOOSE m \in {g[i].x : i \in 1..Len(ns)} : \A i \in 1..Len(ns) : m <= g[i].x
             minY == CHOOSE m \in {g[i].y : i \in 1..Len(ns)} : \A i \in 1..Len(ns) : m <= g[i].y
             offsetX == -minX + 100
             offsetY == -minY + 100
         IN  [i \in 1..Len(ns) |->
                 [ns[i] EXCEPT !.position =
                     [x |-> g[i].x - (BoxWidth(ns[i]) \div 2) + offsetX,
                      y |-> g[i].y - (BoxHeight(ns[i]) \div 2) + offsetY]]]

\* the nodes and edges parseCSV pushes while it visits the rows
parseRows(rows) ==
    [nodes |-> [i \in 1..Len(rows) |-> parseNode(rows[i], i)],
     edges |-> Flatten([i \in 1..Len(rows) |-> parseRowEdges(rows, rows[i])])]

\* the layouts dagre may return for a file; one placeholder when parseCSV does
\* not call it
LayoutsOf(rows) ==
    IF needsAutoLayout(rows) /\ ~hasAnyConnectionData(rows)
    THEN DagreLayouts(parseRows(rows).nodes, 60, 100)
    ELSE {<<>>}

\* parseCSV; g is what dagre.layout returns when the layout step is taken
parseCSV(rows, g) ==
    IF needsAutoLayout(rows) /\ ~hasAnyConnectionData(rows)
    THEN [nodes |-> applyHierarchicalLayout(parseRows(rows).nodes, g),
          edges |-> parseRows(rows).edges]
    ELSE parseRows(rows)

----------------------------------------------------------------------------
(* History manager: the temporal middleware around every set() *)

partialize(ns, es) == [nodes |-> ns, edges |-> es]

\* JSON.stringify(pastState) === JSON.stringify(currentState)
equality(pastState, currentState) == pastState = currentState

\* a push that never drops the oldest snapshot
PushPastUnlimited(past, entry) == Append(past, entry)

PushPast(past, entry) ==
    Append(IF Len(past) >= limit THEN Tail(past) ELSE past, entry)

\* a wrapped set without the equality option: every call records the state it
\* replaced
CommitWithoutEquality(newNodes, newEdges) ==
    /\ nodes' = newNodes
    /\ edges' = newEdges
    /\ pastStates' = PushPast(pastStates, partialize(nodes, edges))
    /\ futureStates' = <<>>

\* zundo's wrapped set: apply the update, then record the state it replaced
Commit(newNodes, newEdges) ==
    /\ nodes' = newNodes
    /\ edges' = newEdges
    /\ IF equality(partialize(nodes, edges), partialize(newNodes, newEdges))
       THEN UNCHANGED <<pastStates, futureStates>>
       ELSE /\ pastStates' = PushPast(pastStates, partialize(nodes, edges))
            /\ futureStates' = <<>>

Snapshot ==
    [nodes |-> nodes, edges |-> edges, selectedNodes |-> selectedNodes,
     selectedEdges |-> selectedEdges, unsavedChanges |-> unsavedChanges,
     isInteracting |-> isInteracting, mode |-> mode, gridEnabled |-> gridEnabled,
     projectName |-> projectName,
     pastStates |-> pastStates, futureStates |-> futureStates, lastOp |-> lastOp,
     pre_op |-> pre.lastOp.op]

NoFile == [csv |-> <<>>, graph |-> partialize(<<>>, <<>>), name |-> "Untitled"]

NoGesture == [phase |-> "none", base |-> partialize(<<>>, <<>>), pastLen |-> 0]

\* a gesture runs from setIsInteracting(true) (onNodeDragStart) through position
\* updates to setIsInteracting(false) (onNodeDragStop); base is the graph and
\* pastLen the history length when it began
NextGesture(op) ==
    IF op.op = "setIsInteracting" /\ op.value
    THEN [phase |-> "dragging", base |-> partialize(nodes, edges),
          pastLen |-> Len(pastStates)]
    ELSE IF gesture.phase = "dragging" /\ op.op = "onNodesChange" /\ op.type = "position"
    THEN gesture
    ELSE IF gesture.phase = "dragging" /\ op.op = "setIsInteracting"
    THEN [gesture EXCEPT !.phase = "done"]
    ELSE IF gesture.phase = "done" /\ op.op = "undo"
    THEN [gesture EXCEPT !.phase = "undone"]
    ELSE NoGesture

\* bookkeeping shared by every operation: the operation budget, the history
\* variables, the file, which only handleExportCSV (saveAs) writes under the
\* project's name, and the import dialog's message, which only
\* handleFileSelect (setError) writes
Record(op) ==
    /\ IF op.op = "recalculateNodeIds" THEN fuel' = fuel
       ELSE fuel > 0 /\ fuel' = fuel - 1
    /\ lastOp' = op
    /\ pre' = Snapshot
    /\ gesture' = NextGesture(op)
    /\ file' = IF op.op = "handleExportCSV"
               THEN [csv |-> generateCSV(nodes, edges), graph |-> partialize(nodes, edges),
                     name |-> projectName]
               ELSE file
    /\ error' = IF "error" \in DOMAIN op THEN op.error ELSE error
    /\ frame' = IF "frame" \in DOMAIN op THEN op.frame ELSE frame
    /\ savedGraph' = IF op.op = "handleExportCSV" THEN partialize(nodes, edges)
                     ELSE IF op.op = "importData" THEN partialize(op.nodes, op.edges)
                     ELSE IF op.op = "clearAll" THEN partialize(<<>>, <<>>)
                     ELSE savedGraph
    /\ UNCHANGED <<sessions, clock>>

\* an effect without its cleanup: a timeout that is pending stays
useAutoSaveWithoutCleanup ==
    IF <<nodes', edges', projectName', unsavedChanges'>> =
       <<nodes, edges, projectName, unsavedChanges>>
    THEN UNCHANGED <<saveTimeout, changedAt>>
    ELSE /\ changedAt' = clock
         /\ saveTimeout' = IF saveTimeout # null THEN saveTimeout
                           ELSE IF ~unsavedChanges' \/ Len(nodes') = 0 THEN null
                           ELSE [due |-> clock + SaveDelay, nodes |-> nodes', edges |-> edges',
                                 projectName |-> projectName']

\* useAutoSave's effect, run after an operation: when nodes, edges, projectName
\* or unsavedChanges changed, the cleanup clears the pending timeout, and a new
\* one is set if there are unsaved changes and nodes
useAutoSave ==
    IF <<nodes', edges', projectName', unsavedChanges'>> =
       <<nodes, edges, projectName, unsavedChanges>>
    THEN UNCHANGED <<saveTimeout, changedAt>>
    ELSE /\ changedAt' = clock
         /\ saveTimeout' = IF ~unsavedChanges' \/ Len(nodes') = 0 THEN null
                           ELSE [due |-> clock + SaveDelay, nodes |-> nodes', edges |-> edges',
                                 projectName |-> projectName']

----------------------------------------------------------------------------
(* Store operations *)

InitStore(budget) ==
    /\ fuel = budget
    /\ nodes = <<>>
    /\ edges = <<>>
    /\ selectedNodes = <<>>
    /\ selectedEdges = <<>>
    /\ unsavedChanges = FALSE
    /\ isInteracting = FALSE
    /\ mode = "select"
    /\ gridEnabled = TRUE
    /\ projectName = "Untitled"
    /\ pastStates = <<>>
    /\ futureStates = <<>>
    /\ pendingRecalc = 0
    /\ now = 0
    /\ gesture = NoGesture
    /\ file = NoFile
    /\ error = null
    /\ frame = null
    /\ savedGraph = partialize(<<>>, <<>>)
    /\ saveTimeout = null
    /\ sessions = <<>>
    /\ clock = 0
    /\ changedAt = 0
    /\ lastOp = [op |-> "init"]
    /\ pre = [nodes |-> <<>>, edges |-> <<>>, selectedNodes |-> <<>>,
              selectedEdges |-> <<>>, unsavedChanges |-> FALSE,
              isInteracting |-> FALSE, mode |-> "select", gridEnabled |-> TRUE,
              projectName |-> "Untitled",
              pastStates |-> <<>>, futureStates |-> <<>>, lastOp |-> [op |-> "init"],
              pre_op |-> "init"]

\* FlowCanvas.onPaneClick: the node object handed to addNode
newNode(position) ==
    [id |-> getNextNodeId(nodes), position |-> position, data |-> DefaultNodeData]

\* an addNode that keeps the id its caller supplied
addNodeKeepingId(nodeData) ==
    /\ Len(nodes) < MaxNodes
    /\ Commit(Append(nodes, nodeData), edges)
    /\ unsavedChanges' = TRUE
    /\ Record([op |-> "addNode", nodeData |-> nodeData])
    /\ UNCHANGED <<uiState, selectedNodes, selectedEdges, isInteracting, pendingRecalc, now>>
    /\ useAutoSave

\* an addNode that numbers the new node by the count of nodes
addNodeCountingNodes(nodeData) ==
    /\ Len(nodes) < MaxNodes
    /\ Commit(Append(nodes, [nodeData EXCEPT !.id = NodeId(Len(nodes) + 1)]), edges)
    /\ unsavedChanges' = TRUE
    /\ Record([op |-> "addNode", nodeData |-> nodeData])
    /\ UNCHANGED <<uiState, selectedNodes, selectedEdges, isInteracting, pendingRecalc, now>>
    /\ useAutoSave

addNode(nodeData) ==
    LET nodeIds == {getNumericId(nodes[i].id) : i \in 1..Len(nodes)}
        maxId == IF nodeIds # {} THEN SetMax(nodeIds) ELSE 0
        nextId == NodeId(maxId + 1)
    IN  /\ Len(nodes) < MaxNodes
        /\ Commit(Append(nodes, [nodeData EXCEPT !.id = nextId]), edges)
        /\ unsavedChanges' = TRUE
        /\ Record([op |-> "addNode", nodeData |-> nodeData])
        /\ UNCHANGED <<uiState, selectedNodes, selectedEdges, isInteracting, pendingRecalc, now>>
        /\ useAutoSave

ClearParentNever(node, nodeIdSet) == node

ClearParent(node, nodeIdSet) ==
    IF node.data.parentId # undefined /\ node.data.parentId \in nodeIdSet
    THEN [node EXCEPT !.data.parentId = undefined]
    ELSE node

deleteNodes(nodeIdSet) ==
    LET remainingNodes == Filter(LAMBDA n : n.id \notin nodeIdSet, nodes)
        updatedNodes == Map(LAMBDA n : ClearParent(n, nodeIdSet), remainingNodes)
        updatedEdges == Filter(LAMBDA e : e.source \notin nodeIdSet
                                          /\ e.target \notin nodeIdSet, edges)
    IN  /\ pendingRecalc < MaxPending
        /\ pendingRecalc' = pendingRecalc + 1
        /\ Commit(updatedNodes, updatedEdges)
        /\ unsavedChanges' = TRUE
        /\ Record([op |-> "deleteNodes", ids |-> nodeIdSet])
        /\ UNCHANGED <<uiState, selectedNodes, selectedEdges, isInteracting, now>>
        /\ useAutoSave

\* the object recalculateNodeIds returns to set()
Renumbering(ns, es, sel) ==
    [nodes |-> RenumberNodes(ns), edges |-> RenumberEdges(ns, es),
     selectedNodes |-> RenumberSelection(ns, sel)]

\* the setTimeout callback queued by deleteNodes
recalculateNodeIds ==
    /\ pendingRecalc > 0
    /\ pendingRecalc' = pendingRecalc - 1
    /\ Commit(Renumbering(nodes, edges, selectedNodes).nodes,
              Renumbering(nodes, edges, selectedNodes).edges)
    /\ selectedNodes' = Renumbering(nodes, edges, selectedNodes).selectedNodes
    /\ Record([op |-> "recalculateNodeIds",
               deleted |-> IF lastOp.op = "deleteNodes"
                           THEN <<[graph |-> partialize(pre.nodes, pre.edges),
                                   ids |-> lastOp.ids,
                                   selectedNodes |-> pre.selectedNodes]>>
                           ELSE <<>>])
    /\ UNCHANGED <<uiState, selectedEdges, unsavedChanges, isInteracting, now>>
    /\ useAutoSave

\* the handle pairs a connect gesture can carry: the two hierarchical patterns
\* and one pair that is neither
HandlePairs == {<<"bottom", "top">>, <<"top", "bottom">>, <<"right", "left">>}

SetParent(ns, child, parent) ==
    Map(LAMBDA n : IF n.id = child THEN [n EXCEPT !.data.parentId = parent] ELSE n, ns)

ConnectNodes(ns, source, target, sourceHandle, targetHandle) ==
    IF sourceHandle = "top" /\ targetHandle = "bottom"
    THEN SetParent(ns, source, target)
    ELSE IF sourceHandle = "bottom" /\ targetHandle = "top"
    THEN SetParent(ns, target, source)
    ELSE ns

NewEdge(source, target, sourceHandle, targetHandle, ts) ==
    [id |-> <<source, target, ts>>,
     source |-> source,
     target |-> target,
     sourceHandle |-> sourceHandle,
     targetHandle |-> targetHandle,
     data |-> DefaultEdgeData]

\* ts is what Date.now() returns: any time not before the last one seen
onConnect(source, target, sourceHandle, targetHandle, ts) ==
    /\ Len(edges) < MaxEdges
    /\ ts >= now
    /\ now' = ts
    /\ Commit(ConnectNodes(nodes, source, target, sourceHandle, targetHandle),
              Append(edges, NewEdge(source, target, sourceHandle, targetHandle, ts)))
    /\ unsavedChanges' = TRUE
    /\ Record([op |-> "onConnect", source |-> source, target |-> target,
               sourceHandle |-> sourceHandle, targetHandle |-> targetHandle])
    /\ UNCHANGED <<uiState, selectedNodes, selectedEdges, isInteracting, pendingRecalc>>
    /\ useAutoSave

updateNode(nodeId, patch) ==
    /\ Commit(Map(LAMBDA n : IF n.id = nodeId
                             THEN [n EXCEPT !.data = Merge(n.data, patch)]
                             ELSE n, nodes),
              edges)
    /\ unsavedChanges' = TRUE
    /\ Record([op |-> "updateNode", id |-> nodeId])
    /\ UNCHANGED <<uiState, selectedNodes, selectedEdges, isInteracting, pendingRecalc, now>>
    /\ useAutoSave

\* CustomNode.handleResize, on the mouse move of a resize of node id: the
\* store update is deferred to the next animation frame; `denoted` remembers
\* the position of the node the id stands for at this moment
handleResize(id, width, height) ==
    /\ frame = null
    /\ \E i \in 1..Len(nodes) :
          /\ nodes[i].id = id
          /\ Record([op |-> "handleResize", id |-> id,
                     frame |-> [id |-> id, width |-> width, height |-> height,
                                denoted |-> nodes[i].position]])
    /\ UNCHANGED <<nodes, edges, pastStates, futureStates, uiState, selectedNodes,
                   selectedEdges, unsavedChanges, isInteracting, pendingRecalc, now>>
    /\ useAutoSave

\* the requestAnimationFrame callback: updateNode(id, { width, height }) with
\* the id the closure holds
resizeFrame ==
    /\ frame # null
    /\ Commit(Map(LAMBDA n : IF n.id = frame.id
                             THEN [n EXCEPT !.data = Merge(n.data, [width |-> frame.width,
                                                                    height |-> frame.height])]
                             ELSE n, nodes),
              edges)
    /\ unsavedChanges' = TRUE
    /\ Record([op |-> "resizeFrame", id |-> frame.id, denoted |-> frame.denoted,
               frame |-> null])
    /\ UNCHANGED <<uiState, selectedNodes, selectedEdges, isInteracting, pendingRecalc, now>>
    /\ useAutoSave

addEdge(edge) ==
    /\ Len(edges) < MaxEdges
    /\ Commit(nodes, Append(edges, edge))
    /\ unsavedChanges' = TRUE
    /\ Record([op |-> "addEdge"])
    /\ UNCHANGED <<uiState, selectedNodes, selectedEdges, isInteracting, pendingRecalc, now>>
    /\ useAutoSave

\* an updateEdge that replaces the edge's data by the given fields
updateEdgeReplacingData(edgeId, patch) ==
    /\ Commit(nodes,
              Map(LAMBDA e : IF e.id = edgeId
                             THEN [e EXCEPT !.data = patch]
                             ELSE e, edges))
    /\ unsavedChanges' = TRUE
    /\ Record([op |-> "updateEdge", id |-> edgeId, patch |-> patch])
    /\ UNCHANGED <<uiState, selectedNodes, selectedEdges, isInteracting, pendingRecalc, now>>
    /\ useAutoSave

updateEdge(edgeId, patch) ==
    /\ Commit(nodes,
              Map(LAMBDA e : IF e.id = edgeId
                             THEN [e EXCEPT !.data = Merge(e.data, patch)]
                             ELSE e, edges))
    /\ unsavedChanges' = TRUE
    /\ Record([op |-> "updateEdge", id |-> edgeId, patch |-> patch])
    /\ UNCHANGED <<uiState, selectedNodes, selectedEdges, isInteracting, pendingRecalc, now>>
    /\ useAutoSave

\* a forEach body that clears the child's parentId without comparing it with
\* the other end of the edge
ClearParentOfEdgeUnchecked(ns, edge, edgeIdSet) ==
    IF edge.id \notin edgeIdSet THEN ns
    ELSE IF edge.sourceHandle = "top" /\ edge.targetHandle = "bottom"
    THEN Map(LAMBDA n : IF n.id = edge.source
                        THEN [n EXCEPT !.data.parentId = undefined] ELSE n, ns)
    ELSE IF edge.sourceHandle = "bottom" /\ edge.targetHandle = "top"
    THEN Map(LAMBDA n : IF n.id = edge.target
                        THEN [n EXCEPT !.data.parentId = undefined] ELSE n, ns)
    ELSE ns

\* a forEach body that leaves every parentId as it is
KeepParentOfEdge(ns, edge, edgeIdSet) == ns

\* the body of state.edges.forEach in deleteEdges, for one edge
ClearParentOfEdge(ns, edge, edgeIdSet) ==
    IF edge.id \notin edgeIdSet THEN ns
    ELSE IF edge.sourceHandle = "top" /\ edge.targetHandle = "bottom"
    THEN Map(LAMBDA n : IF n.id = edge.source /\ n.data.parentId = edge.target
                        THEN [n EXCEPT !.data.parentId = undefined] ELSE n, ns)
    ELSE IF edge.sourceHandle = "bottom" /\ edge.targetHandle = "top"
    THEN Map(LAMBDA n : IF n.id = edge.target /\ n.data.parentId = edge.source
                        THEN [n EXCEPT !.data.parentId = undefined] ELSE n, ns)
    ELSE ns

RECURSIVE ClearParents(_, _, _)
ClearParents(ns, es, edgeIdSet) ==
    IF es = <<>> THEN ns
    ELSE ClearParents(ClearParentOfEdge(ns, Head(es), edgeIdSet), Tail(es), edgeIdSet)

deleteEdges(edgeIdSet) ==
    /\ Commit(ClearParents(nodes, edges, edgeIdSet),
              Filter(LAMBDA e : e.id \notin edgeIdSet, edges))
    /\ unsavedChanges' = TRUE
    /\ Record([op |-> "deleteEdges", ids |-> edgeIdSet])
    /\ UNCHANGED <<uiState, selectedNodes, selectedEdges, isInteracting, pendingRecalc, now>>
    /\ useAutoSave

\* reactflow's applyNodeChanges for a one-element change list
applyNodeChanges(change, ns) ==
    IF change.type = "remove" THEN Filter(LAMBDA n : n.id # change.id, ns)
    ELSE IF change.type = "position"
    THEN Map(LAMBDA n : IF n.id = change.id
                        THEN [n EXCEPT !.position = change.position] ELSE n, ns)
    ELSE ns

\* reactflow's applyEdgeChanges for a one-element change list
applyEdgeChanges(change, es) ==
    IF change.type = "remove" THEN Filter(LAMBDA e : e.id # change.id, es)
    ELSE es

onNodesChange(change) ==
    LET significantChange ==
            \/ change.type = "remove"
            \/ (change.type = "position" /\ ~isInteracting)
    IN  /\ Commit(applyNodeChanges(change, nodes), edges)
        /\ unsavedChanges' = (unsavedChanges \/ significantChange)
        /\ Record([op |-> "onNodesChange", type |-> change.type, id |-> change.id])
        /\ UNCHANGED <<uiState, selectedNodes, selectedEdges, isInteracting, pendingRecalc, now>>
        /\ useAutoSave

onEdgesChange(change) ==
    /\ Commit(nodes, applyEdgeChanges(change, edges))
    /\ unsavedChanges' = TRUE
    /\ Record([op |-> "onEdgesChange", type |-> change.type, id |-> change.id])
    /\ UNCHANGED <<uiState, selectedNodes, selectedEdges, isInteracting, pendingRecalc, now>>
    /\ useAutoSave

setSelectedNodes(nodeIds) ==
    /\ Commit(nodes, edges)
    /\ selectedNodes' = nodeIds
    /\ Record([op |-> "setSelectedNodes"])
    /\ UNCHANGED <<uiState, selectedEdges, unsavedChanges, isInteracting, pendingRecalc, now>>
    /\ useAutoSave

setSelectedEdges(edgeIds) ==
    /\ Commit(nodes, edges)
    /\ selectedEdges' = edgeIds
    /\ Record([op |-> "setSelectedEdges"])
    /\ UNCHANGED <<uiState, selectedNodes, unsavedChanges, isInteracting, pendingRecalc, now>>
    /\ useAutoSave

clearSelection ==
    /\ Commit(nodes, edges)
    /\ selectedNodes' = <<>>
    /\ selectedEdges' = <<>>
    /\ Record([op |-> "clearSelection"])
    /\ UNCHANGED <<uiState, unsavedChanges, isInteracting, pendingRecalc, now>>
    /\ useAutoSave

setIsInteracting(value) ==
    /\ Commit(nodes, edges)
    /\ isInteracting' = value
    /\ Record([op |-> "setIsInteracting", value |-> value])
    /\ UNCHANGED <<uiState, selectedNodes, selectedEdges, unsavedChanges, pendingRecalc, now>>
    /\ useAutoSave

\* an importData that replaces the graph and keeps the selection
importDataKeepingSelection(ns, es) ==
    /\ Commit(ns, es)
    /\ unsavedChanges' = FALSE
    /\ Record([op |-> "importData", nodes |-> ns, edges |-> es])
    /\ UNCHANGED <<uiState, selectedNodes, selectedEdges, isInteracting, pendingRecalc, now>>
    /\ useAutoSave

importData(ns, es) ==
    /\ Commit(ns, es)
    /\ unsavedChanges' = FALSE
    /\ selectedNodes' = <<>>
    /\ selectedEdges' = <<>>
    /\ Record([op |-> "importData", nodes |-> ns, edges |-> es])
    /\ UNCHANGED <<uiState, isInteracting, pendingRecalc, now>>
    /\ useAutoSave

clearAll ==
    /\ Commit(<<>>, <<>>)
    /\ unsavedChanges' = FALSE
    /\ selectedNodes' = <<>>
    /\ selectedEdges' = <<>>
    /\ Record([op |-> "clearAll"])
    /\ UNCHANGED <<uiState, isInteracting, pendingRecalc, now>>
    /\ useAutoSave

setMode(newMode) ==
    /\ Commit(nodes, edges)
    /\ mode' = newMode
    /\ Record([op |-> "setMode"])
    /\ UNCHANGED <<gridEnabled, projectName, selectedNodes, selectedEdges,
                   unsavedChanges, isInteracting, pendingRecalc, now>>
    /\ useAutoSave

toggleGrid ==
    /\ Commit(nodes, edges)
    /\ gridEnabled' = ~gridEnabled
    /\ Record([op |-> "toggleGrid"])
    /\ UNCHANGED <<mode, projectName, selectedNodes, selectedEdges,
                   unsavedChanges, isInteracting, pendingRecalc, now>>
    /\ useAutoSave

setProjectName(name) ==
    /\ Commit(nodes, edges)
    /\ projectName' = name
    /\ Record([op |-> "setProjectName"])
    /\ UNCHANGED <<mode, gridEnabled, selectedNodes, selectedEdges,
                   unsavedChanges, isInteracting, pendingRecalc, now>>
    /\ useAutoSave

\* ExportDialog: the CSV of the current graph is saved as a file
handleExportCSV ==
    /\ Commit(nodes, edges)
    /\ unsavedChanges' = FALSE
    /\ Record([op |-> "handleExportCSV"])
    /\ UNCHANGED <<uiState, selectedNodes, selectedEdges, isInteracting, pendingRecalc, now>>
    /\ useAutoSave

\* err.message || 'Failed to parse CSV file'
FailureMessage == <<Word("Failed to parse CSV file")>>

\* ImportDialog: the chosen file is parsed; the project takes the name of the
\* file, and the parsed graph replaces the store's.  When parseCSV rejects
\* (thrown), the catch clause sets the message and no store action is called.
handleFileSelect(csv, name, thrown, g) ==
    IF thrown
    THEN /\ Record([op |-> "handleFileSelect", csv |-> csv, thrown |-> thrown,
                    error |-> FailureMessage])
         /\ UNCHANGED <<nodes, edges, pastStates, futureStates, uiState, selectedNodes,
                        selectedEdges, unsavedChanges, isInteracting, pendingRecalc, now>>
         /\ useAutoSave
    ELSE /\ Commit(parseCSV(csv, g).nodes, parseCSV(csv, g).edges)
         /\ projectName' = name
         /\ unsavedChanges' = FALSE
         /\ selectedNodes' = <<>>
         /\ selectedEdges' = <<>>
         /\ Record([op |-> "importData", nodes |-> parseCSV(csv, g).nodes,
                    edges |-> parseCSV(csv, g).edges, csv |-> csv, thrown |-> thrown,
                    g |-> g, error |-> null])
         /\ UNCHANGED <<mode, gridEnabled, isInteracting, pendingRecalc, now>>
         /\ useAutoSave

\* an undo that applies the snapshot by replacing the store's whole state, so
\* that the selection falls back to its initial value
undoReplacingState ==
    /\ Len(pastStates) > 0
    /\ nodes' = pastStates[Len(pastStates)].nodes
    /\ edges' = pastStates[Len(pastStates)].edges
    /\ pastStates' = SubSeq(pastStates, 1, Len(pastStates) - 1)
    /\ futureStates' = Append(futureStates, partialize(nodes, edges))
    /\ selectedNodes' = <<>>
    /\ selectedEdges' = <<>>
    /\ Record([op |-> "undo"])
    /\ UNCHANGED <<uiState, unsavedChanges, isInteracting, pendingRecalc, now>>
    /\ useAutoSave

\* temporal.getState().undo(): the snapshot is applied with the store's own set,
\* which the middleware does not record
undo ==
    /\ Len(pastStates) > 0
    /\ nodes' = pastStates[Len(pastStates)].nodes
    /\ edges' = pastStates[Len(pastStates)].edges
    /\ pastStates' = SubSeq(pastStates, 1, Len(pastStates) - 1)
    /\ futureStates' = Append(futureStates, partialize(nodes, edges))
    /\ Record([op |-> "undo"])
    /\ UNCHANGED <<uiState, selectedNodes, selectedEdges, unsavedChanges, isInteracting,
                   pendingRecalc, now>>
    /\ useAutoSave

redo ==
    /\ Len(futureStates) > 0
    /\ nodes' = futureStates[Len(futureStates)].nodes
    /\ edges' = futureStates[Len(futureStates)].edges
    /\ futureStates' = SubSeq(futureStates, 1, Len(futureStates) - 1)
    /\ pastStates' = Append(pastStates, partialize(nodes, edges))
    /\ Record([op |-> "redo"])
    /\ UNCHANGED <<uiState, selectedNodes, selectedEdges, unsavedChanges, isInteracting,
                   pendingRecalc, now>>
    /\ useAutoSave

\* LayoutDialog.handleAutoLayout

\* node.data.parentId || 'root'
GroupKey(node) ==
    IF node.data.parentId = undefined THEN <<"root">> ELSE node.data.parentId

\* the indices of the nodes grouped under one key, in the order of the nodes
Siblings(ns, key) == {i \in 1..Len(ns) : GroupKey(ns[i]) = key}

\* siblings.sort((a, b) => a.position.x - b.position.x): the indices in group,
\* by x, nodes with equal x in their former order
RECURSIVE SortByX(_, _)
SortByX(ns, group) ==
    IF group = {} THEN <<>>
    ELSE LET first == CHOOSE i \in group :
                          \A j \in group :
                              \/ ns[i].position.x < ns[j].position.x
                              \/ (ns[i].position.x = ns[j].position.x /\ i <= j)
         IN  <<first>> \o SortByX(ns, group \ {first})

RECURSIVE SumWidths(_, _)
SumWidths(ns, order) ==
    IF order = <<>> THEN 0 ELSE BoxWidth(ns[Head(order)]) + SumWidths(ns, Tail(order))

RECURSIVE SumCentres(_, _)
SumCentres(ns, order) ==
    IF order = <<>> THEN 0
    ELSE ns[Head(order)].position.x + (BoxWidth(ns[Head(order)]) \div 2)
         + SumCentres(ns, Tail(order))

\* the x the sibling pass gives to the k-th node of a sorted group
SiblingX(ns, order, k) ==
    LET totalWidth == SumWidths(ns, order) + (Len(order) - 1) * FIXED_GAP
        centerX == SumCentres(ns, order) \div Len(order)
        currentX == centerX - (totalWidth \div 2)
    IN  currentX + SumWidths(ns, SubSeq(order, 1, k - 1)) + (k - 1) * FIXED_GAP

\* a sibling pass that leaves every node where dagre put it
KeepDagrePositions(ns) == ns

\* nodesByParent.forEach: the groups of two or more nodes are laid side by
\* side, FIXED_GAP apart, around the mean of their centres
FixSiblingSpacing(ns) ==
    [i \in 1..Len(ns) |->
        LET order == SortByX(ns, Siblings(ns, GroupKey(ns[i])))
            k == CHOOSE m \in 1..Len(order) : order[m] = i
        IN  IF Len(order) <= 1 THEN ns[i]
            ELSE [ns[i] EXCEPT !.position.x = SiblingX(ns, order, k)]]

\* the centres dagre.layout may report to handleAutoLayout: y by rank; x is
\* left free, the sibling pass having to cope with whatever dagre returns.
\* The x values lie on a grid of 12, which keeps the means of up to four
\* centres whole
RawCenters == {12 * k : k \in 0..MaxRaw}

RawLayouts(ns, ranksep) ==
    {[i \in 1..Len(ns) |->
         [x |-> xs[i],
          y |-> RankTop(ns, RankOf(ns, i), ranksep) + (RankHeight(ns, RankOf(ns, i)) \div 2)]] :
       xs \in [1..Len(ns) -> RawCenters]}

\* layoutedNodes before the sibling pass: the top left corners of dagre's boxes
DagrePositions(ns, g) ==
    [i \in 1..Len(ns) |->
        [ns[i] EXCEPT !.position = [x |-> g[i].x - (BoxWidth(ns[i]) \div 2),
                                    y |-> g[i].y - (BoxHeight(ns[i]) \div 2)]]]

\* handleAutoLayout, g being what dagre.layout left in the graph; setNodes
\* hands the laid out nodes to the store's onNodesChange as reset changes
handleAutoLayout(g) ==
    /\ Commit(FixSiblingSpacing(DagrePositions(nodes, g)), edges)
    /\ Record([op |-> "handleAutoLayout", g |-> g])
    /\ UNCHANGED <<uiState, selectedNodes, selectedEdges, unsavedChanges, isInteracting,
                   pendingRecalc, now>>
    /\ useAutoSave

\* time passes, Tick milliseconds at a time, while a save is pending; a queued
\* setTimeout(recalculateNodeIds, 0) runs before any time has passed
timePasses ==
    /\ pendingRecalc = 0
    /\ saveTimeout # null
    /\ clock < saveTimeout.due
    /\ clock' = clock + Tick
    /\ UNCHANGED <<nodes, edges, selectedNodes, selectedEdges, unsavedChanges, isInteracting,
                   uiState, pastStates, futureStates, pendingRecalc, now, file, error, gesture,
                   lastOp, pre, fuel, saveTimeout, sessions, changedAt, frame, savedGraph>>

\* sessions.findIndex(s => s.name === projectName), counted from 1; 0 when
\* there is none
findIndex(list, name) ==
    IF \E i \in 1..Len(list) : list[i].name = name
    THEN CHOOSE i \in 1..Len(list) :
             list[i].name = name /\ \A j \in 1..(i - 1) : list[j].name # name
    ELSE 0

\* list.slice(0, n)
slice(list, n) == SubSeq(list, 1, IF Len(list) < n THEN Len(list) ELSE n)

\* a callback that puts every session first, without looking for its name
StoreSessionAlwaysFirst(list, currentSession) ==
    slice(<<currentSession>> \o list, MAX_SESSIONS)

\* the list the timeout callback stores
StoreSession(list, currentSession) ==
    LET existingIndex == findIndex(list, currentSession.name)
    IN  slice(IF existingIndex # 0
              THEN [list EXCEPT ![existingIndex] = currentSession]
              ELSE <<currentSession>> \o list,
              MAX_SESSIONS)

\* useAutoSave's setTimeout callback: the session built from the values the
\* effect closed over is stored under the project's name
saveSession ==
    /\ saveTimeout # null
    /\ clock >= saveTimeout.due
    /\ LET currentSession ==
               [id |-> clock, name |-> saveTimeout.projectName, timestamp |-> clock,
                data |-> [nodes |-> saveTimeout.nodes, edges |-> saveTimeout.edges,
                          projectName |-> saveTimeout.projectName]]
       IN  /\ sessions' = StoreSession(sessions, currentSession)
           /\ lastOp' = [op |-> "saveSession", session |-> currentSession,
                         existingIndex |-> findIndex(sessions, currentSession.name),
                         sessions |-> sessions]
    /\ saveTimeout' = null
    /\ pre' = Snapshot
    /\ UNCHANGED <<nodes, edges, selectedNodes, selectedEdges, unsavedChanges, isInteracting,
                   uiState, pastStates, futureStates, pendingRecalc, now, file, error, gesture,
                   fuel, clock, changedAt, frame, savedGraph>>

----------------------------------------------------------------------------
(* Specifications *)

\* addNode and deleteNodes only, from the empty store
NextAddDelete ==
    \/ addNode(newNode(Origin))
    \/ \E ids \in (SUBSET CallerIds(nodes)) \ {{}} : deleteNodes(ids)
    \/ recalculateNodeIds

InitAddDelete == InitStore(StepsAddDelete)

SpecAddDelete == InitAddDelete /\ [][NextAddDelete]_vars

\* trees: hierarchical connects between live nodes, deletions and renumbering
HierarchicalPairs == {<<"bottom", "top">>, <<"top", "bottom">>}

NextCascade ==
    \/ addNode(newNode(Origin))
    \/ \E s \in NodeIds(nodes), t \in NodeIds(nodes), h \in HierarchicalPairs :
          onConnect(s, t, h[1], h[2], now)
    \/ \E ids \in (SUBSET NodeIds(nodes)) \ {{}} : deleteNodes(ids)
    \/ recalculateNodeIds

InitCascade == InitStore(StepsCascade)

SpecCascade == InitCascade /\ [][NextCascade]_vars

\* connect gestures between two different live nodes, and edge deletions
NextConnect ==
    \/ addNode(newNode(Origin))
    \/ \E s \in NodeIds(nodes), t \in NodeIds(nodes), h \in HandlePairs, ts \in Times(now) :
          s # t /\ onConnect(s, t, h[1], h[2], ts)
    \/ \E ids \in (SUBSET EdgeIds(edges)) \ {{}} : deleteEdges(ids)

InitConnect == InitStore(StepsConnect)

SpecConnect == InitConnect /\ [][NextConnect]_vars

\* edge deletions: connect gestures between two different live nodes, each
\* within one clock tick, and deleteEdges on the edges drawn
NextDeleteEdges ==
    \/ addNode(newNode(Origin))
    \/ \E s \in NodeIds(nodes), t \in NodeIds(nodes), h \in HandlePairs :
          s # t /\ onConnect(s, t, h[1], h[2], now)
    \/ \E ids \in (SUBSET EdgeIds(edges)) \ {{}} : deleteEdges(ids)

InitDeleteEdges == InitStore(StepsDeleteEdges)

SpecDeleteEdges == InitDeleteEdges /\ [][NextDeleteEdges]_vars

\* operations interleaved with the queued renumbering: every id passed in is
\* the id of a node that is live when the call is made, and the timer
\* callback is never postponed for ever
NextInterleave ==
    \/ addNode(newNode(Origin))
    \/ \E s \in NodeIds(nodes), t \in NodeIds(nodes) :
          s # t /\ onConnect(s, t, "bottom", "top", now)
    \/ \E id \in NodeIds(nodes) : deleteNodes({id})
    \/ \E id \in NodeIds(nodes) : updateNode(id, [label |-> "x"])
    \/ undo
    \/ redo
    \/ recalculateNodeIds

InitInterleave == InitStore(StepsInterleave)

SpecInterleave == InitInterleave /\ [][NextInterleave]_vars /\ WF_vars(recalculateNodeIds)

\* renumbering with selections: nodes, edges between live nodes, one selected
\* node or edge, deletions and the queued renumbering
NextRenumber ==
    \/ \E x \in 0..1 : addNode(newNode([x |-> x, y |-> 0]))
    \/ \E s \in NodeIds(nodes), t \in NodeIds(nodes) :
          s # t /\ onConnect(s, t, "bottom", "top", now)
    \/ \E id \in NodeIds(nodes) : setSelectedNodes(<<id>>)
    \/ \E id \in EdgeIds(edges) : setSelectedEdges(<<id>>)
    \/ \E id \in NodeIds(nodes) : deleteNodes({id})
    \/ recalculateNodeIds

InitRenumber == InitStore(StepsRenumber)

SpecRenumber == InitRenumber /\ [][NextRenumber]_vars

\* drag gestures: onNodeDragStart, position changes, onNodeDragStop, undo
NextDrag ==
    \/ addNode(newNode(Origin))
    \/ \E value \in BOOLEAN : setIsInteracting(value)
    \/ \E id \in NodeIds(nodes), p \in 0..MaxPos :
          onNodesChange([type |-> "position", id |-> id, position |-> [x |-> p, y |-> 0]])
    \/ undo

InitDrag == InitStore(StepsDrag)

SpecDrag == InitDrag /\ [][NextDrag]_vars

\* export and import: graphs drawn with connect gestures between two
\* different live nodes, written to a file and read back
NextCsv ==
    \/ addNode(newNode(Origin))
    \/ \E s \in NodeIds(nodes), t \in NodeIds(nodes), h \in HandlePairs :
          s # t /\ onConnect(s, t, h[1], h[2], now)
    \/ handleExportCSV
    \/ file # NoFile /\ handleFileSelect(file.csv, file.name, FALSE, <<>>)

InitCsv == InitStore(StepsCsv)

SpecCsv == InitCsv /\ [][NextCsv]_vars

\* history: structural operations on live nodes, operations that leave the
\* graph as it is, renumbering, undo and redo
Modes == {"select", "node", "edge"}

ProjectNames == {"Untitled", "Tree"}

NextHistory ==
    \/ addNode(newNode(Origin))
    \/ \E s \in NodeIds(nodes), t \in NodeIds(nodes) :
          s # t /\ onConnect(s, t, "bottom", "top", now)
    \/ \E id \in NodeIds(nodes) : deleteNodes({id})
    \/ recalculateNodeIds
    \/ \E id \in CallerIds(nodes) : updateNode(id, [label |-> "x"])
    \/ updateEdge(StaleEdgeId, [lineStyle |-> "dashed"])
    \/ \E id \in NodeIds(nodes) : setSelectedNodes(<<id>>)
    \/ \E id \in EdgeIds(edges) : setSelectedEdges(<<id>>)
    \/ clearSelection
    \/ \E m \in Modes \ {mode} : setMode(m)
    \/ toggleGrid
    \/ \E name \in ProjectNames \ {projectName} : setProjectName(name)
    \/ undo
    \/ redo

InitHistory == InitStore(StepsHistory)

SpecHistory == InitHistory /\ [][NextHistory]_vars

\* a long editing session on one node: relabelling, undo and redo, enough
\* calls to fill the history beyond its limit
Labels == {"x", "y"}

NextLimit ==
    \/ nodes = <<>> /\ addNode(newNode(Origin))
    \/ \E i \in 1..Len(nodes) : \E label \in Labels \ {nodes[i].data.label} :
          updateNode(nodes[i].id, [label |-> label])
    \/ undo
    \/ redo

InitLimit == InitStore(StepsLimit)

SpecLimit == InitLimit /\ [][NextLimit]_vars

\* node creation: addNode with the node objects its callers build, at several
\* positions and with an id that is the next one or one already in use, next to
\* single deletions and the deferred renumbering
SuppliedIds == {getNextNodeId(nodes), NodeId(1)}

NextCreate ==
    \/ \E id \in SuppliedIds, p \in 0..MaxPos :
          addNode([newNode([x |-> p, y |-> 0]) EXCEPT !.id = id])
    \/ \E id \in NodeIds(nodes) : deleteNodes({id})
    \/ recalculateNodeIds

InitCreate == InitStore(StepsCreate)

SpecCreate == InitCreate /\ [][NextCreate]_vars

\* repeated renumbering: trees with one selected node, single deletions and
\* the queued renumberings
NextIdempotent ==
    \/ addNode(newNode(Origin))
    \/ \E s \in NodeIds(nodes), t \in NodeIds(nodes) :
          s # t /\ onConnect(s, t, "bottom", "top", now)
    \/ \E id \in NodeIds(nodes) : setSelectedNodes(<<id>>)
    \/ \E id \in NodeIds(nodes) : deleteNodes({id})
    \/ recalculateNodeIds

InitIdempotent == InitStore(StepsIdempotent)

SpecIdempotent == InitIdempotent /\ [][NextIdempotent]_vars

\* wholesale replacement: a store with nodes, an edge, a selection and changed
\* UI fields, on which importData and clearAll are called
LoadedNode(k, parent) ==
    [id |-> NodeId(k), position |-> [x |-> k, y |-> 0],
     data |-> [DefaultNodeData EXCEPT !.parentId = parent]]

\* the graphs handed to importData: none, one node, a parent with its child
LoadedGraphs ==
    {partialize(<<>>, <<>>),
     partialize(<<LoadedNode(1, undefined)>>, <<>>),
     partialize(<<LoadedNode(1, undefined), LoadedNode(2, NodeId(1))>>,
                <<NewEdge(NodeId(1), NodeId(2), "bottom", "top", 0)>>)}

NextImport ==
    \/ addNode(newNode(Origin))
    \/ \E s \in NodeIds(nodes), t \in NodeIds(nodes) :
          s # t /\ onConnect(s, t, "bottom", "top", now)
    \/ \E id \in NodeIds(nodes) : setSelectedNodes(<<id>>)
    \/ \E id \in EdgeIds(edges) : setSelectedEdges(<<id>>)
    \/ \E m \in Modes \ {mode} : setMode(m)
    \/ toggleGrid
    \/ \E name \in ProjectNames \ {projectName} : setProjectName(name)
    \/ \E g \in LoadedGraphs : importData(g.nodes, g.edges)
    \/ clearAll

InitImport == InitStore(StepsImport)

SpecImport == InitImport /\ [][NextImport]_vars

\* imports of well-formed and malformed files: the CSV of a graph as
\* generateCSV writes it, the same with the ID of one row left out, and
\* parses that throw
WithoutId(rows, i) == [rows EXCEPT ![i].ID = <<>>]

ImportFiles ==
    LET written == {generateCSV(g.nodes, g.edges) : g \in LoadedGraphs}
    IN  written \cup UNION {{WithoutId(rows, i) : i \in 1..Len(rows)} : rows \in written}

NextMalformed ==
    \/ addNode(newNode(Origin))
    \/ \E id \in NodeIds(nodes) : setSelectedNodes(<<id>>)
    \/ \E csv \in ImportFiles, name \in ProjectNames, thrown \in BOOLEAN :
          handleFileSelect(csv, name, thrown, <<>>)

InitMalformed == InitStore(StepsMalformed)

SpecMalformed == InitMalformed /\ [][NextMalformed]_vars

\* imports of files whose rows lack X, Y or Width: the graphs written by
\* generateCSV, with the cells of some rows left empty
LayoutGraphs ==
    LoadedGraphs \cup
    {partialize(<<LoadedNode(1, undefined), LoadedNode(2, NodeId(1))>>, <<>>),
     partialize(<<LoadedNode(1, undefined), LoadedNode(2, undefined)>>, <<>>),
     partialize(<<[LoadedNode(1, undefined) EXCEPT !.data.width = 300]>>, <<>>)}

WithoutPosition(rows, blank) ==
    [i \in 1..Len(rows) |->
        IF i \in blank THEN [rows[i] EXCEPT !.X = <<>>, !.Y = <<>>] ELSE rows[i]]

WithoutWidth(rows, blank) ==
    [i \in 1..Len(rows) |-> IF i \in blank THEN [rows[i] EXCEPT !.Width = <<>>] ELSE rows[i]]

LayoutFiles ==
    UNION {{WithoutWidth(WithoutPosition(generateCSV(g.nodes, g.edges), noPosition), noWidth) :
              noPosition \in SUBSET (1..Len(g.nodes)), noWidth \in {{}, 1..Len(g.nodes)}} :
           g \in LayoutGraphs}

\* what dagre may return for each of the files
LayoutChoices == [csv \in LayoutFiles |-> LayoutsOf(csv)]

NextLayout ==
    \/ addNode(newNode(Origin))
    \/ \E id \in NodeIds(nodes) : setSelectedNodes(<<id>>)
    \/ \E csv \in LayoutFiles, name \in ProjectNames \ {projectName} :
          \E g \in LayoutChoices[csv] : fuel > 0 /\ handleFileSelect(csv, name, FALSE, g)

InitLayout == InitStore(StepsLayout)

SpecLayout == InitLayout /\ [][NextLayout]_vars

\* auto-save: edits, deletions with their renumbering, renames, undo and
\* redo, while time passes and the pending save runs
NextAutoSave ==
    \/ addNode(newNode(Origin))
    \/ \E id \in NodeIds(nodes) : deleteNodes({id})
    \/ recalculateNodeIds
    \/ \E name \in ProjectNames \ {projectName} : setProjectName(name)
    \/ clearAll
    \/ undo
    \/ redo
    \/ timePasses
    \/ saveSession

InitAutoSave == InitStore(StepsAutoSave)

SpecAutoSave == InitAutoSave /\ [][NextAutoSave]_vars

\* the session list: projects are edited and renamed between two saves; a
\* project gets a name that was never used until the list is full, and from
\* then on also the name of any stored session
SessionNames ==
    <<"Untitled", "Tree", "Tree 2", "Tree 3", "Tree 4", "Tree 5", "Tree 6", "Tree 7",
      "Tree 8", "Tree 9", "Tree 10", "Tree 11">>

StoredNames == {sessions[i].name : i \in 1..Len(sessions)}

UnusedNames ==
    {i \in 1..Len(SessionNames) : SessionNames[i] \notin StoredNames \cup {projectName}}

NextSessions ==
    \/ saveTimeout = null /\ addNode(newNode(Origin))
    \/ /\ saveTimeout = null
       /\ UnusedNames # {}
       /\ setProjectName(SessionNames[CHOOSE i \in UnusedNames : \A j \in UnusedNames : i <= j])
    \/ /\ saveTimeout = null
       /\ Len(sessions) = MAX_SESSIONS
       /\ \E name \in StoredNames \ {projectName} : setProjectName(name)
    \/ timePasses
    \/ saveSession

InitSessions == InitStore(StepsSessions)

SpecSessions == InitSessions /\ [][NextSessions]_vars

\* auto-layout: trees of nodes with and without a width of their own, laid
\* out from the dialog, once between two other operations
Family ==
    partialize(<<LoadedNode(1, undefined), LoadedNode(2, NodeId(1)), LoadedNode(3, NodeId(1))>>,
               <<>>)

UnsizedFiles ==
    UNION {{WithoutWidth(generateCSV(g.nodes, g.edges), blank) :
              blank \in {1..Len(g.nodes), 1..(Len(g.nodes) - 1)}} :
           g \in LoadedGraphs \cup {Family}}

Widths == {300}

NextAutoLayout ==
    \/ addNode(newNode(Origin))
    \/ \E id \in NodeIds(nodes), w \in Widths : updateNode(id, [width |-> w])
    \/ fuel > 0 /\ \E csv \in UnsizedFiles : handleFileSelect(csv, projectName, FALSE, <<>>)
    \/ /\ fuel > 0
       /\ lastOp.op # "handleAutoLayout"
       /\ \E g \in RawLayouts(nodes, spacing) : handleAutoLayout(g)

InitAutoLayout == InitStore(StepsAutoLayout)

SpecAutoLayout == InitAutoLayout /\ [][NextAutoLayout]_vars

\* edge styling: edges drawn between live nodes and restyled, field by field
EdgePatches ==
    {[lineStyle |-> "dashed"],
     [lineColor |-> "#ff0000", lineWidth |-> 4],
     [controlPoint1X |-> 1, controlPoint1Y |-> 2],
     [curveStyle |-> "bezier", controlPoint2X |-> 3, controlPoint2Y |-> 4]}

NextEdgeStyle ==
    \/ addNode(newNode(Origin))
    \/ \E s \in NodeIds(nodes), t \in NodeIds(nodes), h \in HandlePairs :
          s # t /\ onConnect(s, t, h[1], h[2], now)
    \/ \E id \in EdgeIds(edges), patch \in EdgePatches : updateEdge(id, patch)

InitEdgeStyle == InitStore(StepsEdgeStyle)

SpecEdgeStyle == InitEdgeStyle /\ [][NextEdgeStyle]_vars

\* a resize overtaken by a deletion: nodes at different places, a resize
\* whose frame is pending, single deletions and the queued renumbering
FreePlaces == {p \in 0..MaxPos : \A i \in 1..Len(nodes) : nodes[i].position.x # p}

NextResize ==
    \/ \E p \in FreePlaces : addNode(newNode([x |-> p, y |-> 0]))
    \/ \E id \in NodeIds(nodes) : handleResize(id, 300, 100)
    \/ \E id \in NodeIds(nodes) : deleteNodes({id})
    \/ recalculateNodeIds
    \/ resizeFrame

InitResize == InitStore(StepsResize)

SpecResize == InitResize /\ [][NextResize]_vars

\* parent links under connections, edge and node deletions, the queued
\* renumbering, undo and redo
NextBacked ==
    \/ addNode(newNode(Origin))
    \/ \E s \in NodeIds(nodes), t \in NodeIds(nodes), h \in HandlePairs :
          s # t /\ onConnect(s, t, h[1], h[2], now)
    \/ \E ids \in (SUBSET EdgeIds(edges)) \ {{}} : deleteEdges(ids)
    \/ \E id \in NodeIds(nodes) : deleteNodes({id})
    \/ recalculateNodeIds
    \/ undo
    \/ redo

InitBacked == InitStore(StepsBacked)

SpecBacked == InitBacked /\ [][NextBacked]_vars

\* edits around an export, an import or a clearAll: nodes added and moved,
\* drag gestures, undo and redo
NextUnsaved ==
    \/ addNode(newNode(Origin))
    \/ \E value \in BOOLEAN \ {isInteracting} : setIsInteracting(value)
    \/ \E id \in NodeIds(nodes), p \in 0..1 :
          onNodesChange([type |-> "position", id |-> id, position |-> [x |-> p, y |-> 0]])
    \/ handleExportCSV
    \/ \E g \in LoadedGraphs : importData(g.nodes, g.edges)
    \/ clearAll
    \/ undo
    \/ redo

InitUnsaved == InitStore(StepsUnsaved)

SpecUnsaved == InitUnsaved /\ [][NextUnsaved]_vars

\* the whole store: structural operations, renumbering, undo and redo
Next ==
    \/ addNode(newNode(Origin))
    \/ \E s \in CallerIds(nodes), t \in CallerIds(nodes), h \in HandlePairs, ts \in Times(now) :
          onConnect(s, t, h[1], h[2], ts)
    \/ \E ids \in (SUBSET CallerIds(nodes)) \ {{}} : deleteNodes(ids)
    \/ recalculateNodeIds
    \/ \E ids \in (SUBSET EdgeIds(edges)) \ {{}} : deleteEdges(ids)
    \/ \E id \in CallerIds(nodes) : onNodesChange([type |-> "remove", id |-> id])
    \/ \E id \in EdgeIds(edges) : onEdgesChange([type |-> "remove", id |-> id])
    \/ \E id \in CallerIds(nodes) : updateNode(id, [label |-> "x"])
    \/ \E id \in EdgeIds(edges) \cup {StaleEdgeId} : updateEdge(id, [lineStyle |-> "dashed"])
    \/ undo
    \/ redo

Init == InitStore(StepsStore)

Spec == Init /\ [][Next]_vars

----------------------------------------------------------------------------
(* Properties *)

Contiguous(ns) == NodeIds(ns) = {NodeId(k) : k \in 1..Len(ns)}

\* C2 (as stated): after each deleteNodes call the live node ids are exactly
\* node-1..node-N, N the number of nodes.
C2_ContiguousAfterDelete ==
    lastOp.op = "deleteNodes" => Contiguous(nodes)

\* C2 (amended): under addNode and deleteNodes from the empty store, the live
\* node ids are exactly node-1..node-N whenever no renumbering queued by a
\* deleteNodes call is still pending, and right after every renumbering.
C2_ContiguousOnceRenumbered ==
    (pendingRecalc = 0 \/ lastOp.op = "recalculateNodeIds") => Contiguous(nodes)

C2_Witness ==
    /\ lastOp.op = "recalculateNodeIds"
    /\ pendingRecalc = 0
    /\ Len(nodes) >= 2
    /\ ~Contiguous(pre.nodes)
    /\ Contiguous(nodes)

\* C1: in every reachable state every edge's source and target are ids of
\* nodes currently in the store.
C1_NoDanglingEdge ==
    \A i \in 1..Len(edges) :
        edges[i].source \in NodeIds(nodes) /\ edges[i].target \in NodeIds(nodes)

\* C3: every node whose parentId is set has as parentId the id of a live node
\* other than itself.
C3_ParentLiveNotSelf ==
    \A i \in 1..Len(nodes) :
        nodes[i].data.parentId # undefined =>
            /\ nodes[i].data.parentId \in NodeIds(nodes)
            /\ nodes[i].data.parentId # nodes[i].id

IsScenarioGraph(g) ==
    /\ Len(g.nodes) = 2
    /\ g.nodes[1].id = NodeId(1) /\ g.nodes[1].data.parentId = undefined
    /\ g.nodes[2].id = NodeId(2) /\ g.nodes[2].data.parentId = NodeId(1)
    /\ Len(g.edges) = 1
    /\ g.edges[1].source = NodeId(1) /\ g.edges[1].target = NodeId(2)
    /\ g.edges[1].sourceHandle = "bottom" /\ g.edges[1].targetHandle = "top"

\* what deleteNodes(ids) must leave of the store `before`
CascadeDone(before, ids) ==
    /\ NodeIds(nodes) \cap ids = {}
    /\ \A i \in 1..Len(edges) : edges[i].source \notin ids /\ edges[i].target \notin ids
    /\ nodes = Map(LAMBDA n : IF n.data.parentId \in ids
                              THEN [n EXCEPT !.data.parentId = undefined] ELSE n,
                   Filter(LAMBDA n : n.id \notin ids, before.nodes))
    /\ edges = Filter(LAMBDA e : e.source \notin ids /\ e.target \notin ids, before.edges)

\* C4 (as stated): the cascade, and deleting node-1 from the two-node tree
\* yields one node with id node-1, no parent, and no edge.
C4_CascadeAndScenarioAtOnce ==
    lastOp.op = "deleteNodes" =>
        /\ CascadeDone(pre, lastOp.ids)
        /\ (IsScenarioGraph(pre) /\ lastOp.ids = {NodeId(1)}) =>
              /\ Len(nodes) = 1
              /\ nodes[1].id = NodeId(1)
              /\ nodes[1].data.parentId = undefined
              /\ edges = <<>>

\* C4 (amended): one deleteNodes(ids) call removes the nodes in ids and every
\* edge touching them, clears parentId on the survivors whose parent was in ids
\* and keeps it on the others; deleting node-1 from the two-node tree leaves
\* node-2 alone, parentless and without edges, and the renumbering queued by
\* the call then gives it the id node-1.
C4_CascadeThenRenumbered ==
    /\ lastOp.op = "deleteNodes" =>
          /\ CascadeDone(pre, lastOp.ids)
          /\ (IsScenarioGraph(pre) /\ lastOp.ids = {NodeId(1)}) =>
                /\ Len(nodes) = 1
                /\ nodes[1].id = NodeId(2)
                /\ nodes[1].data.parentId = undefined
                /\ edges = <<>>
    /\ (/\ lastOp.op = "recalculateNodeIds"
        /\ pre.lastOp.op = "deleteNodes"
        /\ pre.lastOp.ids = {NodeId(1)}
        /\ IsScenarioGraph(pre.pastStates[Len(pre.pastStates)])) =>
              /\ Len(nodes) = 1
              /\ nodes[1].id = NodeId(1)
              /\ nodes[1].data.parentId = undefined
              /\ edges = <<>>

\* a node and its parent deleted together, a grandchild surviving
C4_Witness ==
    /\ lastOp.op = "deleteNodes"
    /\ \E i \in 1..Len(pre.nodes), j \in 1..Len(pre.nodes), k \in 1..Len(pre.nodes) :
          /\ i # j /\ j # k /\ i # k
          /\ pre.nodes[i].id \in lastOp.ids
          /\ pre.nodes[j].id \in lastOp.ids
          /\ pre.nodes[j].data.parentId = pre.nodes[i].id
          /\ pre.nodes[k].id \notin lastOp.ids
          /\ pre.nodes[k].data.parentId = pre.nodes[j].id
    /\ Len(pre.edges) >= 2
    /\ Len(nodes) = 1

\* the hierarchical edges that attach node c to a parent
ParentEdges(c) ==
    {i \in 1..Len(edges) :
        \/ (edges[i].sourceHandle = "bottom" /\ edges[i].targetHandle = "top"
            /\ edges[i].target = c)
        \/ (edges[i].sourceHandle = "top" /\ edges[i].targetHandle = "bottom"
            /\ edges[i].source = c)}

ParentEnd(e) ==
    IF e.sourceHandle = "bottom" /\ e.targetHandle = "top" THEN e.source ELSE e.target

\* C7: each node has at most one hierarchical edge attaching it to a parent,
\* and that edge joins it to its parentId.
C7_OneParentEdge ==
    \A i \in 1..Len(nodes) :
        /\ Cardinality(ParentEdges(nodes[i].id)) <= 1
        /\ \A j \in ParentEdges(nodes[i].id) :
              ParentEnd(edges[j]) = nodes[i].data.parentId

Untouched ==
    /\ nodes = pre.nodes
    /\ edges = pre.edges
    /\ selectedNodes = pre.selectedNodes
    /\ selectedEdges = pre.selectedEdges
    /\ unsavedChanges = pre.unsavedChanges
    /\ pastStates = pre.pastStates
    /\ futureStates = pre.futureStates

\* C8: updateNode and updateEdge with an id that matches nothing leave nodes,
\* edges, the selections, unsavedChanges and the undo/redo stacks as they were.
C8_UpdateMissIsNoOp ==
    /\ (lastOp.op = "updateNode" /\ lastOp.id \notin NodeIds(pre.nodes)) => Untouched
    /\ (lastOp.op = "updateEdge" /\ lastOp.id \notin EdgeIds(pre.edges)) => Untouched

\* C9: onConnect with a source or target that is no live node adds no edge and
\* changes no parentId.
C9_StaleConnectIgnored ==
    (/\ lastOp.op = "onConnect"
     /\ (lastOp.source \notin NodeIds(pre.nodes) \/ lastOp.target \notin NodeIds(pre.nodes)))
    => (edges = pre.edges /\ nodes = pre.nodes)

\* the id a reference to oldId must carry after renumbering the nodes `before`:
\* node-k for the node that is k-th in ascending order of numeric suffix
Renumbered(before, oldId) ==
    LET s == sortedNodes(before)
        at == {i \in 1..Len(s) : s[i].id = oldId}
    IN  IF at = {} THEN oldId ELSE NodeId(CHOOSE i \in at : TRUE)

\* C10: recalculateNodeIds assigns node-1..node-N in ascending order of the
\* numeric suffix and rewrites every reference through that mapping: edge
\* source and target, parentId and the ids in both selection lists denote the
\* node or edge they denoted before; count, order and other data are unchanged.
C10_RenumberRewritesAllReferences ==
    lastOp.op = "recalculateNodeIds" =>
        LET s == sortedNodes(pre.nodes)
        IN  /\ Len(nodes) = Len(pre.nodes)
            /\ \A i \in 1..Len(nodes) :
                  /\ nodes[i].id = NodeId(i)
                  /\ nodes[i].position = s[i].position
                  /\ nodes[i].data.label = s[i].data.label
                  /\ nodes[i].data.width = s[i].data.width
                  /\ nodes[i].data.parentId = Renumbered(pre.nodes, s[i].data.parentId)
            /\ Len(edges) = Len(pre.edges)
            /\ \A i \in 1..Len(edges) :
                  /\ edges[i].source = Renumbered(pre.nodes, pre.edges[i].source)
                  /\ edges[i].target = Renumbered(pre.nodes, pre.edges[i].target)
                  /\ edges[i].sourceHandle = pre.edges[i].sourceHandle
                  /\ edges[i].targetHandle = pre.edges[i].targetHandle
                  /\ edges[i].data = pre.edges[i].data
            /\ Len(selectedNodes) = Len(pre.selectedNodes)
            /\ \A k \in 1..Len(selectedNodes) :
                  selectedNodes[k] = Renumbered(pre.nodes, pre.selectedNodes[k])
            /\ Len(selectedEdges) = Len(pre.selectedEdges)
            /\ \A k \in 1..Len(selectedEdges), i \in 1..Len(edges) :
                  pre.selectedEdges[k] = pre.edges[i].id => selectedEdges[k] = edges[i].id

\* C5: the position updates of one drag gesture add at most one history entry,
\* and one undo after a gesture that moved something restores the nodes and
\* edges the gesture began with.
C5_DragIsOneUndoStep ==
    /\ gesture.phase \in {"dragging", "done"} =>
          Len(pastStates) <= gesture.pastLen + 1
    /\ (gesture.phase = "undone" /\ partialize(pre.nodes, pre.edges) # gesture.base) =>
          partialize(nodes, edges) = gesture.base

\* the invariants of the data model, on a graph g
StoreInvariants(g) ==
    /\ Cardinality(NodeIds(g.nodes)) = Len(g.nodes)
    /\ \A i \in 1..Len(g.edges) :
          g.edges[i].source \in NodeIds(g.nodes) /\ g.edges[i].target \in NodeIds(g.nodes)
    /\ \A i \in 1..Len(g.nodes) :
          LET c == g.nodes[i]
              attaching == {j \in 1..Len(g.edges) :
                  \/ (g.edges[j].sourceHandle = "bottom" /\ g.edges[j].targetHandle = "top"
                      /\ g.edges[j].target = c.id)
                  \/ (g.edges[j].sourceHandle = "top" /\ g.edges[j].targetHandle = "bottom"
                      /\ g.edges[j].source = c.id)}
          IN  /\ c.data.parentId # undefined =>
                    /\ c.data.parentId \in NodeIds(g.nodes)
                    /\ c.data.parentId # c.id
                    /\ attaching # {}
              /\ Cardinality(attaching) <= 1
              /\ \A j \in attaching : ParentEnd(g.edges[j]) = c.data.parentId

Bijections(A, B) == {r \in [A -> B] : \A b \in B : \E a \in A : r[a] = b} 

NodeTuples(g, r) ==
    {<<r[g.nodes[i].id], g.nodes[i].position, g.nodes[i].data.label,
       g.nodes[i].data.width>> : i \in 1..Len(g.nodes)}

ParentRelation(g, r) ==
    {<<r[g.nodes[i].id], r[g.nodes[i].data.parentId]>> :
        i \in {j \in 1..Len(g.nodes) : g.nodes[j].data.parentId # undefined}}

ConnectionTuples(g, r) ==
    {<<r[g.edges[i].source], r[g.edges[i].target],
       g.edges[i].sourceHandle, g.edges[i].targetHandle,
       g.edges[i].data.lineStyle, g.edges[i].data.arrowStyle,
       g.edges[i].data.curveStyle, Field(g.edges[i].data, "label")>> :
        i \in 1..Len(g.edges)}

\* h is g up to a relabeling of node ids
SameGraph(g, h) ==
    /\ Len(g.nodes) = Len(h.nodes)
    /\ Len(g.edges) = Len(h.edges)
    /\ \E r \in Bijections(NodeIds(g.nodes), NodeIds(h.nodes)) :
          LET same == [id \in NodeIds(h.nodes) |-> id]
          IN  /\ NodeTuples(g, r) = NodeTuples(h, same)
              /\ ParentRelation(g, r) = ParentRelation(h, same)
              /\ ConnectionTuples(g, r) = ConnectionTuples(h, same)

\* C6: for a graph that satisfies the data model's invariants, reading back
\* the CSV written from it gives the same nodes up to id relabeling, the same
\* parentId relation and the same connections (source, target, handles, line,
\* arrow and curve style, label).
C6_CsvRoundTrip ==
    (lastOp.op = "importData" /\ StoreInvariants(file.graph)) =>
        SameGraph(file.graph, partialize(nodes, edges))

IsHierarchical(e) ==
    \/ (e.sourceHandle = "bottom" /\ e.targetHandle = "top")
    \/ (e.sourceHandle = "top" /\ e.targetHandle = "bottom")

ChildEnd(e) ==
    IF e.sourceHandle = "bottom" /\ e.targetHandle = "top" THEN e.target ELSE e.source

\* node n loses its parent when the edges in ids are removed from es: one of
\* them is a hierarchical edge from n's parentId to n
LosesParent(n, es, ids) ==
    \E j \in 1..Len(es) :
        /\ es[j].id \in ids
        /\ IsHierarchical(es[j])
        /\ ChildEnd(es[j]) = n.id
        /\ ParentEnd(es[j]) = n.data.parentId

\* C11: deleteEdges(ids) removes exactly the edges whose id is in ids, sets
\* parentId to undefined on each child c of a removed hierarchical edge whose
\* other end is c's parentId, and leaves every other node and every remaining
\* edge unchanged.
C11_DeleteEdgesClearsBackedParent ==
    lastOp.op = "deleteEdges" =>
        /\ edges = Filter(LAMBDA e : e.id \notin lastOp.ids, pre.edges)
        /\ Len(nodes) = Len(pre.nodes)
        /\ \A i \in 1..Len(nodes) :
              nodes[i] = IF LosesParent(pre.nodes[i], pre.edges, lastOp.ids)
                         THEN [pre.nodes[i] EXCEPT !.data.parentId = undefined]
                         ELSE pre.nodes[i]

\* one hierarchical edge removed and its child's parent cleared, while another
\* child keeps its parent and its edge
C11_Witness ==
    /\ lastOp.op = "deleteEdges"
    /\ \E i \in 1..Len(nodes), k \in 1..Len(nodes) :
          /\ i # k
          /\ pre.nodes[i].data.parentId # undefined
          /\ nodes[i].data.parentId = undefined
          /\ nodes[k].data.parentId # undefined
          /\ nodes[k].data.parentId # nodes[k].id
    /\ Len(edges) = 1
    /\ Len(pre.edges) = 2

\* the parentId of the node with this id; undefined when there is none
ParentOf(ns, id) ==
    LET at == {i \in 1..Len(ns) : ns[i].id = id}
    IN  IF at = {} THEN undefined ELSE ns[CHOOSE i \in at : TRUE].data.parentId

\* where k parentId links lead from id: undefined once a parentless node is passed
RECURSIVE Climb(_, _, _)
Climb(ns, id, k) ==
    IF id = undefined \/ k = 0 THEN id ELSE Climb(ns, ParentOf(ns, id), k - 1)

\* C12: the parentId relation is a forest: from every node the parentId links
\* end at a parentless node, so there is no cycle of any length.
C12_ParentRelationIsForest ==
    \A i \in 1..Len(nodes) : Climb(nodes, nodes[i].id, Len(nodes)) = undefined

\* ids contiguous, every edge endpoint and every parentId a live node
Settled ==
    /\ Contiguous(nodes)
    /\ \A i \in 1..Len(edges) :
          edges[i].source \in NodeIds(nodes) /\ edges[i].target \in NodeIds(nodes)
    /\ \A i \in 1..Len(nodes) :
          nodes[i].data.parentId # undefined => nodes[i].data.parentId \in NodeIds(nodes)

----------------------------------------------------------------------------
(* C14: no undo across an import *)

\* C14: once a CSV import has been applied through importData, the past and
\* the future stack of the history are both empty, so no undo can bring the
\* graph of before the import back
C14_ImportEmptiesHistory ==
    lastOp.op = "importData" => (pastStates = <<>> /\ futureStates = <<>>)

----------------------------------------------------------------------------
(* C15: undo and redo touch the graph only *)

\* the fields of the store outside the history's partialize
UiFields(st) ==
    <<st.selectedNodes, st.selectedEdges, st.mode, st.gridEnabled, st.projectName,
      st.unsavedChanges, st.isInteracting>>

\* C15: undo and redo change only nodes and edges; selectedNodes,
\* selectedEdges, mode, gridEnabled, projectName, unsavedChanges and
\* isInteracting are the same after the call as before it
C15_UndoRedoTouchGraphOnly ==
    lastOp.op \in {"undo", "redo"} => UiFields(Snapshot) = UiFields(pre)

\* an undo that changed the graph while a node was selected, the mode was not
\* the initial one and there were unsaved changes
C15_Witness ==
    /\ lastOp.op = "undo"
    /\ partialize(nodes, edges) # partialize(pre.nodes, pre.edges)
    /\ selectedNodes # <<>>
    /\ mode # "select"
    /\ unsavedChanges

----------------------------------------------------------------------------
(* C16: the history holds no no-op entry *)

Graph == partialize(nodes, edges)

GraphBefore == partialize(pre.nodes, pre.edges)

\* an operation other than undo and redo left nodes and edges value-equal
LeftGraphEqual == lastOp.op \notin {"init", "undo", "redo"} /\ Graph = GraphBefore

NoEqualNeighbours(stack) == \A i \in 1..(Len(stack) - 1) : stack[i] # stack[i + 1]

\* C16: an operation that leaves nodes and edges value-equal (a selection
\* setter, setMode, toggleGrid, setProjectName, updateNode or updateEdge on a
\* missing id, the renumbering of a contiguous store) adds no history entry;
\* so no two consecutive snapshots of the history are value-equal, the newest
\* past snapshot differs from the present graph, and every undo changes nodes
\* or edges
C16_NoNoOpHistoryEntry ==
    /\ LeftGraphEqual => (pastStates = pre.pastStates /\ futureStates = pre.futureStates)
    /\ NoEqualNeighbours(pastStates)
    /\ Len(pastStates) > 0 => pastStates[Len(pastStates)] # Graph
    /\ lastOp.op = "undo" => Graph # GraphBefore

\* the renumbering of a contiguous store ran over a history of two entries
\* and left it as it was
C16_Witness ==
    /\ lastOp.op = "recalculateNodeIds"
    /\ LeftGraphEqual
    /\ Len(pastStates) >= 2
    /\ pastStates = pre.pastStates

----------------------------------------------------------------------------
(* C17: the history is bounded *)

\* a call other than undo and redo changed the graph
Pushed == lastOp.op \notin {"init", "undo", "redo"} /\ Graph # GraphBefore

\* C17: the past stack never holds more than 50 snapshots, and a push onto a
\* stack of 50 drops its oldest snapshot
C17_PastStatesBounded ==
    /\ Len(pastStates) <= limit
    /\ (Pushed /\ Len(pre.pastStates) = limit)
          => pastStates = Append(Tail(pre.pastStates), GraphBefore)

\* the 51st push: a relabelling changed the graph while the stack was full
C17_Witness ==
    /\ Pushed
    /\ lastOp.op = "updateNode"
    /\ Len(pre.pastStates) = limit
    /\ Len(pastStates) = limit

----------------------------------------------------------------------------
(* C18: delete the second of three nodes, then add one *)

IdsOf(ns) == [i \in 1..Len(ns) |-> ns[i].id]

WithId(node, k) == [node EXCEPT !.id = NodeId(k)]

\* the three operations before this state were deleteNodes, addNode and the
\* timer callback, the last two in either order, and nothing is pending
DeleteThenAdd ==
    /\ pendingRecalc = 0
    /\ pre.pre_op = "deleteNodes"
    /\ {lastOp.op, pre.lastOp.op} = {"addNode", "recalculateNodeIds"}

\* the node object addNode was called with
AddedNodeData == IF lastOp.op = "addNode" THEN lastOp.nodeData ELSE pre.lastOp.nodeData

\* the store held node-1, node-2, node-3 and the deletion removed node-2: the
\* history keeps the graph of before the deletion under the graph of after it
SecondOfThreeDeleted ==
    /\ Len(pastStates) >= 3
    /\ LET before == pastStates[Len(pastStates) - 2].nodes
           after == pastStates[Len(pastStates) - 1].nodes
       IN  /\ IdsOf(before) = <<NodeId(1), NodeId(2), NodeId(3)>>
           /\ after = <<before[1], before[3]>>

\* C18: from node-1, node-2, node-3, deleteNodes([node-2]) followed by addNode
\* gives, once the deferred renumbering has run, exactly three nodes: node-1
\* as it was, the former node-3 as node-2, and the added node as node-3. This
\* is so whether addNode came before or after the renumbering.
C18_DeleteSecondThenAdd ==
    (DeleteThenAdd /\ SecondOfThreeDeleted) =>
        LET before == pastStates[Len(pastStates) - 2].nodes
        IN  nodes = <<before[1], WithId(before[3], 2), WithId(AddedNodeData, 3)>>

\* addNode was called before the renumbering ran, so the new node was first
\* node-4; the three nodes lie at three different positions
C18_Witness ==
    /\ DeleteThenAdd
    /\ SecondOfThreeDeleted
    /\ lastOp.op = "recalculateNodeIds"
    /\ IdsOf(pre.nodes) = <<NodeId(1), NodeId(3), NodeId(4)>>
    /\ IdsOf(nodes) = <<NodeId(1), NodeId(2), NodeId(3)>>
    /\ nodes[1].position # nodes[2].position
    /\ nodes[2].position # nodes[3].position
    /\ nodes[1].position # nodes[3].position

\* addNode was called after the renumbering had run
C18_AddAfterRenumbering ==
    /\ DeleteThenAdd
    /\ SecondOfThreeDeleted
    /\ lastOp.op = "addNode"
    /\ IdsOf(nodes) = <<NodeId(1), NodeId(2), NodeId(3)>>

----------------------------------------------------------------------------
(* C19: the id of a new node *)

\* the greatest numeric suffix among the ids of ns, 0 when there is none
GreatestSuffix(ns) ==
    IF ns = <<>> THEN 0
    ELSE CHOOSE m \in {ns[i].id[2] : i \in 1..Len(ns)} :
             \A i \in 1..Len(ns) : ns[i].id[2] <= m

\* C19: addNode appends the node it is given after the existing nodes, with
\* the id node-(m+1), m the greatest numeric suffix among the ids in the store
\* (0 when it is empty), whatever id the caller supplied; three addNode calls
\* from the empty store yield node-1, node-2, node-3 in the order of creation
C19_AddNodeNumbersFromGreatest ==
    /\ lastOp.op = "addNode" =>
          nodes = Append(pre.nodes, WithId(lastOp.nodeData, GreatestSuffix(pre.nodes) + 1))
    /\ (fuel = StepsCreate - 3 /\ Len(nodes) = 3) =>
          /\ IdsOf(nodes) = <<NodeId(1), NodeId(2), NodeId(3)>>
          /\ nodes[2] = WithId(pre.lastOp.nodeData, 2)
          /\ nodes[3] = WithId(lastOp.nodeData, 3)

\* addNode on a store with a gap in its ids, called with an id that is already
\* in use: the new id is neither the supplied one nor count plus one
C19_Witness ==
    /\ lastOp.op = "addNode"
    /\ pre.nodes # <<>>
    /\ lastOp.nodeData.id \in NodeIds(pre.nodes)
    /\ nodes[Len(nodes)].id # NodeId(Len(nodes))
    /\ nodes[Len(nodes)].id \notin NodeIds(pre.nodes)

----------------------------------------------------------------------------
(* C20: renumbering is idempotent *)

Once == Renumbering(nodes, edges, selectedNodes)

Twice == Renumbering(Once.nodes, Once.edges, Once.selectedNodes)

\* C20: recalculateNodeIds on a store whose ids are already node-1..node-N
\* changes no node id, no parentId, no source, target or id of an edge and no
\* selection entry; and on any store, a second application changes nothing
\* the first has produced
C20_RenumberingIdempotent ==
    /\ (lastOp.op = "recalculateNodeIds" /\ Contiguous(pre.nodes)) =>
          /\ nodes = pre.nodes
          /\ edges = pre.edges
          /\ selectedNodes = pre.selectedNodes
          /\ selectedEdges = pre.selectedEdges
    /\ Twice = Once

\* the renumbering ran on a contiguous store with a child, an edge and a
\* selected node
C20_Witness ==
    /\ lastOp.op = "recalculateNodeIds"
    /\ Contiguous(pre.nodes)
    /\ Len(edges) >= 1
    /\ selectedNodes # <<>>
    /\ \E i \in 1..Len(nodes) : nodes[i].data.parentId # undefined

----------------------------------------------------------------------------
(* C21: importData and clearAll *)

\* the store is saved, nothing is selected, and mode, gridEnabled and
\* projectName are as before the call
FreshlyLoaded ==
    /\ selectedNodes = <<>>
    /\ selectedEdges = <<>>
    /\ ~unsavedChanges
    /\ <<mode, gridEnabled, projectName>> = <<pre.mode, pre.gridEnabled, pre.projectName>>

\* C21: from any prior state importData(n, e) leaves nodes = n, edges = e,
\* both selections empty and unsavedChanges false, and clearAll leaves nodes,
\* edges and both selections empty with unsavedChanges false; neither changes
\* mode, gridEnabled or projectName
C21_ImportAndClearReplaceAll ==
    /\ lastOp.op = "importData" =>
          (nodes = lastOp.nodes /\ edges = lastOp.edges /\ FreshlyLoaded)
    /\ lastOp.op = "clearAll" =>
          (nodes = <<>> /\ edges = <<>> /\ FreshlyLoaded)

\* importData of a graph with nodes on an unsaved store that held another
\* graph, a selected node and a mode other than the initial one
C21_Witness ==
    /\ lastOp.op = "importData"
    /\ nodes # <<>>
    /\ pre.nodes # <<>>
    /\ pre.nodes # nodes
    /\ pre.selectedNodes # <<>>
    /\ pre.unsavedChanges
    /\ mode # "select"

----------------------------------------------------------------------------
(* C22: a malformed import leaves the store untouched *)

\* the last operation was an import attempt on a file with a row without ID,
\* or one whose parse threw
MalformedImport ==
    /\ "csv" \in DOMAIN lastOp
    /\ \/ lastOp.thrown
       \/ \E i \in 1..Len(lastOp.csv) : lastOp.csv[i].ID = <<>>

\* C22: when the import data is malformed (a row lacks the ID, or parsing
\* throws) the import is reported as failed and nodes, edges, the selection,
\* projectName and unsavedChanges are as before the attempt; importData is not
\* called
C22_MalformedImportRejected ==
    MalformedImport =>
        /\ error # null
        /\ lastOp.op # "importData"
        /\ nodes = pre.nodes
        /\ edges = pre.edges
        /\ selectedNodes = pre.selectedNodes
        /\ selectedEdges = pre.selectedEdges
        /\ projectName = pre.projectName
        /\ unsavedChanges = pre.unsavedChanges

\* the part of C22 that holds: a parse that throws is reported and changes
\* nothing in the store
ThrownImportRejected ==
    ("csv" \in DOMAIN lastOp /\ lastOp.thrown) =>
        /\ error # null
        /\ lastOp.op # "importData"
        /\ Graph = GraphBefore
        /\ UiFields(Snapshot) = UiFields(pre)
        /\ pastStates = pre.pastStates

\* ---- import-time layout ----

\* the last operation imported a file
ImportedFile == lastOp.op = "importData" /\ "csv" \in DOMAIN lastOp

\* every node stands where the hierarchical layout puts it, for one of the
\* results dagre may return
LaidOut ==
    \E g \in DagreLayouts(parseRows(lastOp.csv).nodes, 60, 100) :
        nodes = applyHierarchicalLayout(parseRows(lastOp.csv).nodes, g)

\* the file has two rows, a parent and its child
ParentAndChild ==
    /\ Len(nodes) = 2
    /\ nodes[1].data.parentId = undefined
    /\ nodes[2].data.parentId = nodes[1].id

\* C23: after the import of a file in which some row omits X or Y, every node
\* has the position the hierarchical layout assigns, whether or not a row
\* carries ConnectionData; in a two-row parent and child file the child's top
\* is the rank gap below the parent's bottom, and unsavedChanges is false
C23_ImportWithoutPositionsIsLaidOut ==
    (ImportedFile /\ needsAutoLayout(lastOp.csv)) =>
        /\ LaidOut
        /\ ParentAndChild =>
              nodes[2].position.y = nodes[1].position.y + BoxHeight(nodes[1]) + 100
        /\ ~unsavedChanges

\* the part of C23 that holds: the same, for the files in which no row carries
\* ConnectionData
LaidOutWithoutConnectionData ==
    (ImportedFile /\ needsAutoLayout(lastOp.csv) /\ ~hasAnyConnectionData(lastOp.csv)) =>
        /\ LaidOut
        /\ ParentAndChild =>
              nodes[2].position.y = nodes[1].position.y + BoxHeight(nodes[1]) + 100
        /\ ~unsavedChanges

\* a parent and child file without positions and without ConnectionData has
\* been imported
LaidOutParentAndChild ==
    /\ ImportedFile /\ needsAutoLayout(lastOp.csv) /\ ~hasAnyConnectionData(lastOp.csv)
    /\ ParentAndChild

\* ---- the two ways parseCSV reads parent edges ----

\* the edges of the store that parseCSV built from the ParentID of row i
FromParentID(i) ==
    {j \in 1..Len(edges) :
        /\ edges[j].id = <<TextId(lastOp.csv[i].ParentID), TextId(lastOp.csv[i].ID), -1>>
        /\ edges[j].source = TextId(lastOp.csv[i].ParentID)
        /\ edges[j].target = nodes[i].id
        /\ edges[j].sourceHandle = "bottom"
        /\ edges[j].targetHandle = "top"}

\* one interpretation for the whole file, and ParentID read into parentId
OneInterpretation ==
    /\ Len(nodes) = Len(lastOp.csv)
    /\ \A i \in 1..Len(nodes) : nodes[i].data.parentId = TextId(lastOp.csv[i].ParentID)
    /\ IF hasAnyConnectionData(lastOp.csv)
       THEN \A j \in 1..Len(edges) : edges[j].id[3] # -1
       ELSE \A i \in 1..Len(nodes) :
               Cardinality(FromParentID(i)) = IF lastOp.csv[i].ParentID = <<>> THEN 0 ELSE 1

\* the hierarchical edges of the store that join node n to its parent
JoinsToParent(n) ==
    {j \in 1..Len(edges) :
        /\ IsHierarchical(edges[j])
        /\ ChildEnd(edges[j]) = n.id
        /\ ParentEnd(edges[j]) = n.data.parentId}

\* C24: parseCSV builds an edge from ParentID for every row that has one when
\* no row has ConnectionData and for no row otherwise, reads each ParentID into
\* parentId, and leaves exactly one hierarchical edge between every node that
\* has a parentId and that parent
C24_OneParentEdgePerChild ==
    (ImportedFile /\ StoreInvariants(file.graph)) =>
        /\ OneInterpretation
        /\ \A i \in 1..Len(nodes) :
              nodes[i].data.parentId # undefined =>
                  Cardinality(JoinsToParent(nodes[i])) = 1

\* the part of C24 that holds: the choice between the two readings is made
\* once per file
InterpretationPerFile == ImportedFile => OneInterpretation

\* a file with ConnectionData and a file without, both with a ParentID, have
\* been imported
ImportedWithParentID ==
    /\ ImportedFile
    /\ \E i \in 1..Len(lastOp.csv) : lastOp.csv[i].ParentID # <<>>

\* ---- the packed connections generateCSV writes ----

\* the edges that leave node n and are not hierarchical, in the store's order
OutgoingNonHierarchical(n) ==
    Filter(LAMBDA e : e.source = n.id /\ ~IsHierarchical(e), edges)

\* C25: in the file generateCSV writes, the ConnectionData of every node's row
\* lists exactly the non-hierarchical edges that leave the node, and ParentID
\* is the node's parentId
C25_ConnectionDataIsNonHierarchical ==
    lastOp.op = "handleExportCSV" =>
        /\ Len(file.csv) = Len(nodes)
        /\ \A i \in 1..Len(nodes) :
              /\ file.csv[i].ParentID = IdText(nodes[i].data.parentId)
              /\ file.csv[i].ConnectionData =
                     Join(Map(PackConnection, OutgoingNonHierarchical(nodes[i])), ";")

\* the part of C25 that holds: the ParentID column
ParentIDColumn ==
    lastOp.op = "handleExportCSV" =>
        /\ Len(file.csv) = Len(nodes)
        /\ \A i \in 1..Len(nodes) : file.csv[i].ParentID = IdText(nodes[i].data.parentId)

\* a graph in which a hierarchical edge leaves a parent has been written
ExportedParentEdge ==
    /\ lastOp.op = "handleExportCSV"
    /\ \E j \in 1..Len(edges) : edges[j].sourceHandle = "bottom" /\ edges[j].targetHandle = "top"

\* ---- auto-save ----

\* C26: a session is written only when SaveDelay milliseconds have passed
\* since the last change of nodes, edges, projectName or unsavedChanges, only
\* with unsaved changes and at least one node, and the written snapshot is the
\* store's nodes, edges and projectName at that moment, at which no
\* renumbering is pending
C26_AutoSaveWritesQuietSnapshot ==
    lastOp.op = "saveSession" =>
        /\ clock - changedAt >= SaveDelay
        /\ unsavedChanges
        /\ Len(nodes) > 0
        /\ lastOp.session.data =
               [nodes |-> nodes, edges |-> edges, projectName |-> projectName]
        /\ pendingRecalc = 0

\* a session has been written after a deletion and its renumbering
C26_Witness ==
    /\ lastOp.op = "saveSession"
    /\ pre.lastOp.op = "recalculateNodeIds"
    /\ pre.pre_op = "deleteNodes"

\* ---- the stored session list ----

\* the list without its entry at index i
Without(list, i) == SubSeq(list, 1, i - 1) \o SubSeq(list, i + 1, Len(list))

\* C27: the stored list holds at most MAX_SESSIONS sessions and at most one
\* per project name; a write under a name that is in the list replaces the
\* entry at its index and leaves the length and the other entries as they were
C27_OneSessionPerName ==
    /\ Len(sessions) <= MAX_SESSIONS
    /\ \A i \in 1..Len(sessions), j \in 1..Len(sessions) :
          sessions[i].name = sessions[j].name => i = j
    /\ (lastOp.op = "saveSession" /\ lastOp.existingIndex # 0) =>
          /\ Len(sessions) = Len(lastOp.sessions)
          /\ sessions[lastOp.existingIndex] = lastOp.session
          /\ Without(sessions, lastOp.existingIndex) =
                 Without(lastOp.sessions, lastOp.existingIndex)

\* a full list in which the last write replaced an entry that is not the first
C27_Witness ==
    /\ lastOp.op = "saveSession"
    /\ lastOp.existingIndex > 1
    /\ Len(sessions) = MAX_SESSIONS

\* the sessions of the list with the oldest timestamp
Oldest(list) ==
    {i \in 1..Len(list) : \A j \in 1..Len(list) : list[i].timestamp <= list[j].timestamp}

\* C28: a write under a new name to a list of MAX_SESSIONS sessions puts the
\* new session first and removes the session with the oldest timestamp
C28_OldestSessionRemoved ==
    (lastOp.op = "saveSession" /\ lastOp.existingIndex = 0
     /\ Len(lastOp.sessions) = MAX_SESSIONS) =>
        /\ sessions[1] = lastOp.session
        /\ \E i \in Oldest(lastOp.sessions) :
              SubSeq(sessions, 2, Len(sessions)) = Without(lastOp.sessions, i)

\* the part of C28 that holds: the new session is first and the removed one is
\* the last of the list
LastSessionRemoved ==
    (lastOp.op = "saveSession" /\ lastOp.existingIndex = 0
     /\ Len(lastOp.sessions) = MAX_SESSIONS) =>
        /\ sessions[1] = lastOp.session
        /\ SubSeq(sessions, 2, Len(sessions)) = Without(lastOp.sessions, MAX_SESSIONS)

\* ---- the margin of the import-time layout ----

\* the last operation imported a file on which parseCSV ran the layout
ImportedWithLayout ==
    /\ ImportedFile
    /\ needsAutoLayout(lastOp.csv) /\ ~hasAnyConnectionData(lastOp.csv)
    /\ Len(nodes) > 0

\* C30: after the import-time layout the smallest x and the smallest y of the
\* node positions are the margin of 100, and no coordinate is negative
C30_LayoutStartsAtMargin ==
    ImportedWithLayout =>
        /\ \E i \in 1..Len(nodes) : nodes[i].position.x = 100
        /\ \E i \in 1..Len(nodes) : nodes[i].position.y = 100
        /\ \A i \in 1..Len(nodes) : nodes[i].position.x >= 100 /\ nodes[i].position.y >= 100

\* what holds instead: the margin is kept by the centres of the boxes
CentresStartAtMargin ==
    ImportedWithLayout =>
        /\ \E i \in 1..Len(nodes) :
              nodes[i].position.x + (BoxWidth(nodes[i]) \div 2) = 100
        /\ \E i \in 1..Len(nodes) :
              nodes[i].position.y + (BoxHeight(nodes[i]) \div 2) = 100
        /\ \A i \in 1..Len(nodes) :
              /\ nodes[i].position.x + (BoxWidth(nodes[i]) \div 2) >= 100
              /\ nodes[i].position.y + (BoxHeight(nodes[i]) \div 2) >= 100

\* a node wider than twice the margin has been laid out left of the origin
NegativeCoordinate ==
    ImportedWithLayout /\ \E i \in 1..Len(nodes) : nodes[i].position.x < 0

\* ---- sibling spacing after auto-layout ----

\* the boxes of nodes i and j are side by side, at least FIXED_GAP apart
Apart(i, j) ==
    \/ nodes[i].position.x + BoxWidth(nodes[i]) + FIXED_GAP <= nodes[j].position.x
    \/ nodes[j].position.x + BoxWidth(nodes[j]) + FIXED_GAP <= nodes[i].position.x

\* C29: after auto-layout the boxes of any two nodes with the same parentId,
\* the nodes without parent being one group, do not overlap horizontally and
\* are at least FIXED_GAP apart, whatever the widths and the x dagre returned
C29_SiblingsApart ==
    lastOp.op = "handleAutoLayout" =>
        \A i \in 1..Len(nodes), j \in 1..Len(nodes) :
            (i # j /\ GroupKey(nodes[i]) = GroupKey(nodes[j])) => Apart(i, j)

\* auto-layout has placed two siblings of different widths, one with the
\* default width, for which dagre returned the x in the reverse order or the
\* same x
C29_Witness ==
    /\ lastOp.op = "handleAutoLayout"
    /\ \E i \in 1..Len(nodes), j \in 1..Len(nodes) :
          /\ i < j
          /\ GroupKey(nodes[i]) = GroupKey(nodes[j])
          /\ nodes[i].data.parentId # undefined
          /\ "width" \notin DOMAIN nodes[i].data
          /\ BoxWidth(nodes[j]) # BoxWidth(nodes[i])
          /\ lastOp.g[i].x >= lastOp.g[j].x

\* ---- updateEdge ----

\* edge e is edge d with the fields of patch written into its data
Restyled(e, d, patch) ==
    /\ DOMAIN e.data = (DOMAIN d.data) \cup (DOMAIN patch)
    /\ \A k \in DOMAIN patch : e.data[k] = patch[k]
    /\ \A k \in (DOMAIN d.data) \ (DOMAIN patch) : e.data[k] = d.data[k]
    /\ e.id = d.id /\ e.source = d.source /\ e.target = d.target
    /\ e.sourceHandle = d.sourceHandle /\ e.targetHandle = d.targetHandle

\* C31: updateEdge(id, partial) on an existing edge sets the data fields of
\* partial, control points included, to the given values, keeps every other
\* data field, the ends and the handles of that edge, and leaves the other
\* edges and the nodes unchanged
C31_UpdateEdgeMergesFields ==
    (lastOp.op = "updateEdge" /\ lastOp.id \in EdgeIds(pre.edges)) =>
        /\ nodes = pre.nodes
        /\ Len(edges) = Len(pre.edges)
        /\ \A i \in 1..Len(edges) :
              IF pre.edges[i].id = lastOp.id
              THEN Restyled(edges[i], pre.edges[i], lastOp.patch)
              ELSE edges[i] = pre.edges[i]

\* control points have been set on an edge that was restyled before and that
\* is not the only edge
C31_Witness ==
    /\ lastOp.op = "updateEdge"
    /\ "controlPoint1X" \in DOMAIN lastOp.patch
    /\ \E i \in 1..Len(edges), j \in 1..Len(edges) :
          /\ edges[i].id = lastOp.id
          /\ edges[i].data.lineStyle = "dashed"
          /\ edges[i].data.controlPoint1X = 1
          /\ edges[j].id # lastOp.id

\* ---- calls with an id captured before a deletion ----

\* C32: a store call with a node id captured earlier changes no node but the
\* one the id stood for when it was captured, and changes no node at all when
\* that node has been deleted since
C32_CapturedIdKeepsItsNode ==
    lastOp.op = "resizeFrame" =>
        /\ Len(nodes) = Len(pre.nodes)
        /\ \A i \in 1..Len(nodes) :
              pre.nodes[i].position # lastOp.denoted => nodes[i] = pre.nodes[i]

\* the part of C32 that holds: a captured id that is the id of no node any
\* more changes no node
CapturedIdWithoutNode ==
    (lastOp.op = "resizeFrame" /\ lastOp.id \notin NodeIds(pre.nodes)) => nodes = pre.nodes

\* the frame of a resize has run after the node it was for had been deleted
FrameAfterDeletion ==
    /\ lastOp.op = "resizeFrame"
    /\ \A i \in 1..Len(pre.nodes) : pre.nodes[i].position # lastOp.denoted

\* ---- undo after a deletion ----

\* C33: one undo after a deleteNodes and its renumbering restores the nodes
\* and edges of before the deletion, and undo and redo never end in a state
\* whose node ids are not node-1..node-N
C33_UndoRestoresBeforeDelete ==
    /\ (/\ lastOp.op = "undo"
        /\ pre.lastOp.op = "recalculateNodeIds"
        /\ pre.lastOp.deleted # <<>>) =>
          partialize(nodes, edges) = pre.lastOp.deleted[1].graph
    /\ lastOp.op \in {"undo", "redo"} => Contiguous(nodes)

\* the part of C33 that holds: when the renumbering had nothing to rename, the
\* deletion is one history entry and one undo restores the graph
UndoOfDeleteWithoutRenaming ==
    (/\ lastOp.op = "undo"
     /\ pre.lastOp.op = "recalculateNodeIds"
     /\ pre.lastOp.deleted # <<>>
     /\ pre.pastStates[Len(pre.pastStates)] = pre.lastOp.deleted[1].graph) =>
        partialize(nodes, edges) = pre.lastOp.deleted[1].graph

\* an undo has followed a deletion whose renumbering renamed a node
UndoAfterRenaming ==
    /\ lastOp.op = "undo"
    /\ pre.lastOp.op = "recalculateNodeIds"
    /\ pre.lastOp.deleted # <<>>
    /\ pre.pastStates[Len(pre.pastStates)] # pre.lastOp.deleted[1].graph

\* ---- the selection across a deletion ----

\* C34: after deleteNodes(ids) and its renumbering, every id in selectedNodes
\* is the id of a live node that was selected before the deletion, carried
\* through the old-to-new mapping; no deleted id stays in the selection
C34_SelectionFollowsSurvivors ==
    (lastOp.op = "recalculateNodeIds" /\ lastOp.deleted # <<>>) =>
        LET d == lastOp.deleted[1]
        IN  \A k \in 1..Len(selectedNodes) :
                /\ selectedNodes[k] \in NodeIds(nodes)
                /\ \E j \in 1..Len(d.selectedNodes) :
                      /\ d.selectedNodes[j] \notin d.ids
                      /\ d.selectedNodes[j] \in NodeIds(pre.nodes)
                      /\ selectedNodes[k] = Renumbered(pre.nodes, d.selectedNodes[j])

\* the part of C34 that holds: the selected ids of surviving nodes are carried
\* through the mapping, in place
SurvivorsStaySelected ==
    (lastOp.op = "recalculateNodeIds" /\ lastOp.deleted # <<>>) =>
        LET d == lastOp.deleted[1]
        IN  /\ Len(selectedNodes) = Len(d.selectedNodes)
            /\ \A k \in 1..Len(selectedNodes) :
                  (d.selectedNodes[k] \notin d.ids
                   /\ d.selectedNodes[k] \in NodeIds(pre.nodes)) =>
                      selectedNodes[k] = Renumbered(pre.nodes, d.selectedNodes[k])

\* a deleted node's id is still selected after the renumbering and is the id
\* of another node
DeletedIdDenotesAnotherNode ==
    /\ lastOp.op = "recalculateNodeIds" /\ lastOp.deleted # <<>>
    /\ \E k \in 1..Len(selectedNodes) :
          /\ selectedNodes[k] \in lastOp.deleted[1].ids
          /\ selectedNodes[k] \in NodeIds(nodes)

\* ---- parent links and their edges ----

\* C35: every node c whose parentId is p has a hierarchical edge joining it to
\* p in the edge list: bottom->top from p to c, or top->bottom from c to p
C35_ParentBackedByEdge ==
    \A i \in 1..Len(nodes) :
        nodes[i].data.parentId # undefined =>
            \E j \in ParentEdges(nodes[i].id) :
                ParentEnd(edges[j]) = nodes[i].data.parentId

\* an edge deletion or an undo has removed an edge and a node still has a parent
C35_Witness ==
    /\ lastOp.op \in {"deleteEdges", "undo"}
    /\ Len(edges) < Len(pre.edges)
    /\ \E i \in 1..Len(nodes) : nodes[i].data.parentId # undefined

\* ---- unsaved changes ----

\* C36: whenever nodes or edges differ from their values at the last
\* importData, clearAll or CSV export, unsavedChanges is true
C36_UnsavedWhenGraphDiffers ==
    partialize(nodes, edges) # savedGraph => unsavedChanges

\* the part of C36 that holds: an operation other than a position change, undo
\* and redo that changes nodes or edges leaves unsavedChanges true, unless it
\* is one of the three that save
UnsavedAfterStructuralChange ==
    (/\ lastOp.op \notin {"init", "undo", "redo", "onNodesChange",
                          "importData", "clearAll", "handleExportCSV"}
     /\ Graph # GraphBefore) => unsavedChanges

\* an undo has changed the graph that was exported and unsavedChanges is false
UndoneAfterExport ==
    /\ lastOp.op = "undo"
    /\ pre.lastOp.op = "handleExportCSV"
    /\ partialize(nodes, edges) # savedGraph
    /\ ~unsavedChanges

\* a position change during a drag gesture has moved a node of the exported
\* graph and unsavedChanges is false
DraggedAfterExport ==
    /\ lastOp.op = "onNodesChange"
    /\ isInteracting
    /\ partialize(nodes, edges) # savedGraph
    /\ ~unsavedChanges

\* ---- distinct node ids ----

\* C37: in every state reachable from the empty store through addNode,
\* deleteNodes, the renumbering, onConnect, undo and redo, no two nodes have
\* the same id
C37_NodeIdsDistinct ==
    \A i \in 1..Len(nodes), j \in 1..Len(nodes) :
        nodes[i].id = nodes[j].id => i = j

\* a node has been added next to the nodes an undo or redo brought back with
\* a gap in their ids
C37_Witness ==
    /\ lastOp.op = "addNode"
    /\ pre.lastOp.op \in {"undo", "redo"}
    /\ ~Contiguous(pre.nodes)
    /\ Len(nodes) >= 2

====
